---- MODULE Spec2Model ----
(***************************************************************************)
(* JobInfo WhatsApp back end: the dispatcher, the recruiter and seeker     *)
(* conversation state machines, the entitlement check and the job-code     *)
(* codec, as a state machine over the persisted tables.                    *)
(*                                                                         *)
(* One action handles one inbound event from start to end (dispatch and    *)
(* every handler it calls).  A handler is an operator from a "world"       *)
(* record (the tables plus what the turn has sent, which handlers ran and  *)
(* the exception that ended it) to a world record; every statement of a    *)
(* handler is a primitive that does nothing once an exception is set, so   *)
(* a handler reads top to bottom like its Python source.                   *)
(*                                                                         *)
(* Strings that the code parses (message text, job codes, button-id        *)
(* suffixes) are sequences of one-character strings.  Timestamps are day   *)
(* numbers; the store is taken to return them as it was given them.        *)
(***************************************************************************)
EXTENDS Integers, Sequences, FiniteSets, TLC

\* ------------------------------------------------------------------ bounds
MaxVacancies == 1
MaxParallelVacancies == 3
MaxApps == 3
MaxCallbacks == 1
MaxCvUpdates == 1
MaxClockSteps == 1
MaxTasks == 1
MaxSequentialVacancies == 1000
MaxTextLen == 5
MaxOtpRecords == 3
MaxOtpMinutes == 6
MaxEntitlementApps == 4

\* Days the clock advances in one Tick (longer than the shortest plan).
ClockStepDays == 20

Addresses == {"a1", "a2"}

\* settings.admin_wa_number of a deployment that has a moderation channel.
AdminWaNumber == "admin"

\* ------------------------------------------------------------- characters
DigitChars == <<"0", "1", "2", "3", "4", "5", "6", "7", "8", "9">>

IsDigit(c) == \E i \in 1..10 : DigitChars[i] = c

DigitVal(c) == (CHOOSE i \in 1..10 : DigitChars[i] = c) - 1

UpperLetters == <<"A", "C", "J", "M", "P", "R", "V", "Y">>

LowerLetters == <<"a", "c", "j", "m", "p", "r", "v", "y">>

\* str.lower() / str.upper() on the alphabet the model's texts use.
LowerChar(c) ==
    IF \E i \in 1..Len(UpperLetters) : UpperLetters[i] = c
    THEN LowerLetters[CHOOSE i \in 1..Len(UpperLetters) : UpperLetters[i] = c]
    ELSE c

UpperChar(c) ==
    IF \E i \in 1..Len(LowerLetters) : LowerLetters[i] = c
    THEN UpperLetters[CHOOSE i \in 1..Len(LowerLetters) : LowerLetters[i] = c]
    ELSE c

Lower(s) == [i \in 1..Len(s) |-> LowerChar(s[i])]

Upper(s) == [i \in 1..Len(s) |-> UpperChar(s[i])]

RECURSIVE LStrip(_)
LStrip(s) == IF s # <<>> /\ Head(s) = " " THEN LStrip(Tail(s)) ELSE s

RECURSIVE RStrip(_)
RStrip(s) ==
    IF s # <<>> /\ s[Len(s)] = " " THEN RStrip(SubSeq(s, 1, Len(s) - 1)) ELSE s

Strip(s) == RStrip(LStrip(s))

\* str(n) for n >= 0.
RECURSIVE Digits(_)
Digits(n) ==
    IF n < 10 THEN <<DigitChars[n + 1]>>
    ELSE Digits(n \div 10) \o <<DigitChars[(n % 10) + 1]>>

AllDigits(s) == s # <<>> /\ \A i \in 1..Len(s) : IsDigit(s[i])

\* int(s) for a string of decimal digits.
RECURSIVE IntOf(_)
IntOf(s) ==
    IF s = <<>> THEN 0
    ELSE 10 * IntOf(SubSeq(s, 1, Len(s) - 1)) + DigitVal(s[Len(s)])

\* ---------------------------------------------------------- job-code codec
JobCodePrefix == <<"J", "C", ":">>

\* The empty string; Python's None where the code tests a string's truth.
NoCode == <<>>

\* re.search(r"(JC:\d+)", text, re.IGNORECASE) can match at position i.
MatchesAt(text, i) ==
    /\ i + 3 <= Len(text)
    /\ UpperChar(text[i]) = "J"
    /\ UpperChar(text[i + 1]) = "C"
    /\ text[i + 2] = ":"
    /\ IsDigit(text[i + 3])

\* Last index of the greedy \d+ run that starts at k.
RECURSIVE DigitRunEnd(_, _)
DigitRunEnd(text, k) ==
    IF k + 1 <= Len(text) /\ IsDigit(text[k + 1])
    THEN DigitRunEnd(text, k + 1)
    ELSE k

\* parse_job_code returning the match as it was typed (no .upper()).
parse_job_code_as_typed(text) ==
    IF \E i \in 1..Len(text) : MatchesAt(text, i)
    THEN LET i == CHOOSE j \in 1..Len(text) :
                      /\ MatchesAt(text, j)
                      /\ \A k \in 1..(j - 1) : ~MatchesAt(text, k)
         IN  SubSeq(text, i, DigitRunEnd(text, i + 3))
    ELSE NoCode

\* parse_job_code with re.match: the pattern only at the start of the text.
parse_job_code_at_start(text) ==
    IF MatchesAt(text, 1)
    THEN Upper(SubSeq(text, 1, DigitRunEnd(text, 4)))
    ELSE NoCode

parse_job_code(text) ==
    IF \E i \in 1..Len(text) : MatchesAt(text, i)
    THEN LET i == CHOOSE j \in 1..Len(text) :
                      /\ MatchesAt(text, j)
                      /\ \A k \in 1..(j - 1) : ~MatchesAt(text, k)
         IN  Upper(SubSeq(text, i, DigitRunEnd(text, i + 3)))
    ELSE NoCode

FirstJobNumber == 1001

\* last.id + 1, or 1001 for an empty table; ids are 1..Len(vacancies).
\* generate_job_code that orders by id ascending: first.id + 1.
generate_job_code_first_row(vacancies) ==
    JobCodePrefix \o Digits(IF Len(vacancies) > 0 THEN 1 + 1 ELSE FirstJobNumber)

generate_job_code(vacancies) ==
    JobCodePrefix \o
        Digits(IF Len(vacancies) > 0 THEN Len(vacancies) + 1 ELSE FirstJobNumber)

\* ------------------------------------------------------------ plan catalog
PlanNames == {"free_trial", "basic", "popular", "advanced"}

NoPlan == "none"

\* max_applications = None
Unlimited == -1

\* plan_expiry / approved_at = None
NoTime == -1

FreeTrialDays == 15
BasicDays == 30
PopularDays == 60
AdvancedDays == 60
FreeTrialMaxApplications == 3
BasicMaxApplications == 50
PopularMaxApplications == 100

duration_days(plan) ==
    CASE plan = "free_trial" -> FreeTrialDays
      [] plan = "basic" -> BasicDays
      [] plan = "popular" -> PopularDays
      [] plan = "advanced" -> AdvancedDays

max_applications(plan) ==
    CASE plan = "free_trial" -> FreeTrialMaxApplications
      [] plan = "basic" -> BasicMaxApplications
      [] plan = "popular" -> PopularMaxApplications
      [] plan = "advanced" -> Unlimited

\* ------------------------------------------------------------------- state
VARIABLES
    conv,                  \* conversation_states: address -> row (or absent)
    cand,                  \* candidate_table: address -> row (or absent)
    recr,                  \* recruiter_table: sequence of rows, id = index
    vacs,                  \* job_vacancies: sequence of rows, id = index
    apps,                  \* candidate_applications: sequence of rows
    cbs,                   \* callback_requests: sequence of addresses
    tasks,                 \* tasks created by 'renew' and not yet run
    now,                   \* the clock, in days
    subscription_enabled,  \* settings.subscription_enabled
    last,                  \* the event handled last, what its turn did and answered
    journey,               \* address -> how far along the deep-link path it is
    inflight,              \* address -> its vacancy-form handler suspended at an await
    otp_records,           \* otp_records: sequence of rows, id = index
    otp_clock              \* the clock, in minutes

vars ==
    <<conv, cand, recr, vacs, apps, cbs, tasks, now, subscription_enabled, last,
      journey, inflight, otp_records, otp_clock>>

\* The context blob: the keys present and their values.
EmptyCtx ==
    [keys |-> {}, pending_job_code |-> NoCode, vacancy_id |-> 0, job_code |-> NoCode]

PendingCtx(code) ==
    [keys |-> {"pending_job_code"}, pending_job_code |-> code,
     vacancy_id |-> 0, job_code |-> NoCode]

ViewingCtx(vid, code) ==
    [keys |-> {"vacancy_id", "job_code"}, pending_job_code |-> NoCode,
     vacancy_id |-> vid, job_code |-> code]

CvCtx(vid) ==
    [keys |-> {"vacancy_id"}, pending_job_code |-> NoCode,
     vacancy_id |-> vid, job_code |-> NoCode]

\* (context or {}).get("pending_job_code")
CtxPendingCode(ctx) ==
    IF "pending_job_code" \in ctx.keys THEN ctx.pending_job_code ELSE NoCode

NoConv ==
    [exists |-> FALSE, state |-> "", context |-> EmptyCtx,
     last_user_message_at |-> NoTime]

\* ConversationState(wa_number=a, state="idle", context={}) as db.add takes it.
NewConversationState == [NoConv EXCEPT !.exists = TRUE, !.state = "idle"]

\* The columns the mapping of conversation_states declares: db.commit()
\* writes these and a later request loads these.
ConversationStateColumns == {"id", "wa_number", "state", "context", "updated_at"}

\* The row as a later request loads it: an attribute set on the instance
\* that is no mapped column is not written.
Persisted(row) ==
    IF "last_user_message_at" \in ConversationStateColumns THEN row
    ELSE [row EXCEPT !.last_user_message_at = NoTime]

NoCandidate ==
    [exists |-> FALSE, registration_complete |-> FALSE, plan |-> NoPlan,
     plan_expiry |-> NoTime, applications_used |-> 0, free_trial_used |-> FALSE,
     cv_path |-> "", cv_updates_used |-> 0]

\* Candidate(wa_number=..., cv_path=..., registration_complete=False) with the
\* column defaults.
NewCandidate(cv) ==
    [exists |-> TRUE, registration_complete |-> FALSE, plan |-> NoPlan,
     plan_expiry |-> NoTime, applications_used |-> 0, free_trial_used |-> FALSE,
     cv_path |-> cv, cv_updates_used |-> 0]

\* JobVacancy(job_code=..., recruiter_id=...) with the column defaults.
NewVacancy(code, rid) ==
    [job_code |-> code, recruiter_id |-> rid, status |-> "pending",
     rejection_reason |-> "", approved_at |-> NoTime, is_edited |-> FALSE]

\* ------------------------------------------------------------------ queries
\* db.query(Recruiter).filter_by(wa_number=a).first(): the id, 0 for None.
RecruiterOf(w, a) ==
    IF \E i \in 1..Len(w.recr) : w.recr[i].wa_number = a
    THEN CHOOSE i \in 1..Len(w.recr) :
             /\ w.recr[i].wa_number = a
             /\ \A j \in 1..(i - 1) : w.recr[j].wa_number # a
    ELSE 0

\* db.query(JobVacancy).filter_by(job_code=code).first(): the id, 0 for None.
VacancyByCode(w, code) ==
    IF \E i \in 1..Len(w.vacs) : w.vacs[i].job_code = code
    THEN CHOOSE i \in 1..Len(w.vacs) :
             /\ w.vacs[i].job_code = code
             /\ \A j \in 1..(i - 1) : w.vacs[j].job_code # code
    ELSE 0

\* db.query(JobVacancy).filter_by(id=vid).first(): the id, 0 for None.
VacancyById(w, vid) == IF vid \in 1..Len(w.vacs) THEN vid ELSE 0

\* db.query(CandidateApplication).filter_by(candidate_id, vacancy_id).first()
ExistingApplication(w, a, vid) ==
    IF \E i \in 1..Len(w.apps) : w.apps[i].candidate = a /\ w.apps[i].vacancy_id = vid
    THEN CHOOSE i \in 1..Len(w.apps) :
             /\ w.apps[i].candidate = a /\ w.apps[i].vacancy_id = vid
             /\ \A j \in 1..(i - 1) :
                    ~(w.apps[j].candidate = a /\ w.apps[j].vacancy_id = vid)
    ELSE 0

\* --------------------------------------------------------------- primitives
\* The world at the start of the turn that handles ev; failAt is the number
\* of the gateway request that is refused (0: none is); added lists the
\* conversation_states rows the turn has inserted.
World(ev, failAt) ==
    [conv |-> conv, cand |-> cand, recr |-> recr, vacs |-> vacs, apps |-> apps,
     cbs |-> cbs, tasks |-> tasks, sent |-> <<>>, ran |-> <<>>, exc |-> "",
     nreq |-> 0, failAt |-> failAt, ev |-> ev, resp |-> "", added |-> <<>>]

Ok(w) == w.exc = ""

Raise(w, e) == IF Ok(w) THEN [w EXCEPT !.exc = e] ELSE w

\* A handler function is entered.
Enter(w, handler) == IF Ok(w) THEN [w EXCEPT !.ran = Append(@, handler)] ELSE w

\* WhatsAppClient._post: the request is made and raise_for_status() raises
\* when the gateway refuses it.  info is what the body reports (a status).
\* PostInfo that undoes the turn's writes when the request is refused.
PostInfo_rollback(w, to, msg, ref, info) ==
    IF ~Ok(w) THEN w
    ELSE IF w.nreq + 1 = w.failAt
         THEN [w EXCEPT !.nreq = @ + 1, !.exc = "HTTPStatusError",
                        !.conv = conv, !.cand = cand, !.recr = recr, !.vacs = vacs,
                        !.apps = apps, !.cbs = cbs, !.tasks = tasks]
         ELSE [w EXCEPT !.nreq = @ + 1,
                        !.sent = Append(@, [to |-> to, msg |-> msg, ref |-> ref,
                                            info |-> info])]

PostInfo(w, to, msg, ref, info) ==
    IF ~Ok(w) THEN w
    ELSE IF w.nreq + 1 = w.failAt
         THEN [w EXCEPT !.nreq = @ + 1, !.exc = "HTTPStatusError"]
         ELSE [w EXCEPT !.nreq = @ + 1,
                        !.sent = Append(@, [to |-> to, msg |-> msg, ref |-> ref,
                                            info |-> info])]

Post(w, to, msg, ref) == PostInfo(w, to, msg, ref, "")

\* get_media_url + download_media
FetchMedia(w) ==
    IF ~Ok(w) THEN w
    ELSE IF w.nreq + 1 = w.failAt
         THEN [w EXCEPT !.nreq = @ + 1, !.exc = "HTTPStatusError"]
         ELSE [w EXCEPT !.nreq = @ + 1]

\* db.add(state): the row is inserted for the address.
AddConversationState(w, a, row) ==
    [w EXCEPT !.conv[a] = row,
              !.added = Append(@, [wa_number |-> a, state |-> row.state,
                                   context |-> row.context])]

_get_or_create_state(w, a) ==
    IF ~Ok(w) \/ w.conv[a].exists THEN w
    ELSE AddConversationState(w, a, NewConversationState)

_set_state(w, a, state, context) ==
    IF ~Ok(w) THEN w
    ELSE [_get_or_create_state(w, a) EXCEPT
              !.conv[a].state = state, !.conv[a].context = context]

\* global_handler._reset_state: only an existing row is reset.
\* _reset_state that sets the tag and keeps the context.
_reset_state_tag_only(w, a) ==
    IF Ok(w) /\ w.conv[a].exists THEN [w EXCEPT !.conv[a].state = "idle"] ELSE w

_reset_state(w, a) ==
    IF ~Ok(w) \/ ~w.conv[a].exists THEN w
    ELSE [w EXCEPT !.conv[a].state = "idle", !.conv[a].context = EmptyCtx]

\* dispatcher._track_user_message with db.add for every event.
_track_user_message_always_add(w, a) ==
    IF ~Ok(w) THEN w
    ELSE LET w1 == AddConversationState(w, a, IF w.conv[a].exists THEN w.conv[a]
                                              ELSE NewConversationState)
         IN  [w1 EXCEPT !.conv[a].last_user_message_at = now]

\* dispatcher._track_user_message: the row is created on the first event and
\* the instance's last_user_message_at is set to the time of the event.
_track_user_message(w, a) ==
    IF ~Ok(w) THEN w
    ELSE LET w1 == IF w.conv[a].exists THEN w
                   ELSE AddConversationState(w, a, NewConversationState)
         IN  [w1 EXCEPT !.conv[a].last_user_message_at = now]

\* ------------------------------------------------------------ media store
MimeToExt(mime_type) ==
    CASE mime_type = "application/pdf" -> ".pdf"
      [] mime_type = "text/csv" -> ".csv"
      [] mime_type = "application/vnd.ms-excel" -> ".csv"
      [] OTHER -> ""

ALLOWED_EXTENSIONS == {".pdf", ".csv"}

\* save_cv_from_whatsapp returns a path ("" for None) ...
SavedCvPath(mime_type) ==
    IF MimeToExt(mime_type) \in ALLOWED_EXTENSIONS THEN MimeToExt(mime_type) ELSE ""

\* ... after it has fetched the media, which it does only for an allowed type.
save_cv_from_whatsapp(w, mime_type) ==
    IF MimeToExt(mime_type) \in ALLOWED_EXTENSIONS THEN FetchMedia(w) ELSE w

\* ------------------------------------------------------------------ seeker
\* _has_active_plan with the cap compared by > where the code has >=.
_has_active_plan_cap_exceeded(c) ==
    IF ~subscription_enabled THEN TRUE
    ELSE IF c.plan_expiry = NoTime THEN FALSE
    ELSE IF c.plan_expiry < now THEN FALSE
    ELSE IF /\ c.plan # NoPlan
            /\ max_applications(c.plan) # Unlimited
            /\ c.applications_used > max_applications(c.plan)
         THEN FALSE
    ELSE TRUE

\* _has_active_plan without the comparison with the plan's cap.
_has_active_plan_no_cap(c) ==
    IF ~subscription_enabled THEN TRUE
    ELSE IF c.plan_expiry = NoTime THEN FALSE
    ELSE IF c.plan_expiry < now THEN FALSE
    ELSE TRUE

_has_active_plan(c) ==
    IF ~subscription_enabled THEN TRUE
    ELSE IF c.plan_expiry = NoTime THEN FALSE
    ELSE IF c.plan_expiry < now THEN FALSE
    ELSE IF /\ c.plan # NoPlan
            /\ max_applications(c.plan) # Unlimited
            /\ c.applications_used >= max_applications(c.plan)
         THEN FALSE
    ELSE TRUE

_show_job_apply_prompt(w, a, vid) ==
    LET w1 == Enter(w, "_show_job_apply_prompt")
        existing == ExistingApplication(w1, a, vid)
    IN  IF ~_has_active_plan(w1.cand[a])
        THEN Post(w1, a, "plan_renewal", 0)
        ELSE IF existing # 0
        THEN PostInfo(w1, a, "already_applied", vid, w1.apps[existing].status)
        ELSE _set_state(Post(w1, a, "apply_prompt", vid), a, "seeker_viewing_job",
                        ViewingCtx(vid, w1.vacs[vid].job_code))

\* seeker.start without the test of the vacancy's status.
seeker_start_any_status(w, a, job_code) ==
    LET w1 == Enter(w, "seeker.start")
        vid == VacancyByCode(w1, job_code)
    IN  IF vid = 0
        THEN Post(w1, a, "no_longer_available", 0)
        ELSE IF ~w1.cand[a].exists \/ ~w1.cand[a].registration_complete
        THEN _set_state(Post(w1, a, "register_choices", vid), a,
                        "seeker_pre_register", PendingCtx(job_code))
        ELSE _show_job_apply_prompt(w1, a, vid)

seeker_start(w, a, job_code) ==
    LET w1 == Enter(w, "seeker.start")
        vid == VacancyByCode(w1, job_code)
    IN  IF vid = 0 \/ w1.vacs[vid].status # "approved"
        THEN Post(w1, a, "no_longer_available", 0)
        ELSE IF ~w1.cand[a].exists \/ ~w1.cand[a].registration_complete
        THEN _set_state(Post(w1, a, "register_choices", vid), a,
                        "seeker_pre_register", PendingCtx(job_code))
        ELSE _show_job_apply_prompt(w1, a, vid)

AddCallback(w, a) == IF Ok(w) THEN [w EXCEPT !.cbs = Append(@, a)] ELSE w

handle_callback_button(w, a) ==
    _set_state(Post(AddCallback(Enter(w, "handle_callback_button"), a),
                    a, "callback_ack", 0),
               a, "idle", EmptyCtx)

handle_register_button(w, a, job_code) ==
    _set_state(Post(Enter(w, "handle_register_button"), a, "register_form", 0),
               a, "seeker_registering", PendingCtx(job_code))

_send_plan_selection(w, a) ==
    _set_state(Post(Enter(w, "_send_plan_selection"), a, "plan_list", 0),
               a, "seeker_selecting_plan", EmptyCtx)

\* The Candidate row is created, or an existing one's profile updated.
SaveCandidate(w, a, cv_path) ==
    IF ~Ok(w) THEN w
    ELSE IF ~w.cand[a].exists
         THEN [w EXCEPT !.cand[a] = NewCandidate(cv_path)]
         ELSE IF cv_path # ""
              THEN [w EXCEPT !.cand[a].cv_path = cv_path]
              ELSE w

CompleteRegistration(w, a) ==
    IF Ok(w) THEN [w EXCEPT !.cand[a].registration_complete = TRUE] ELSE w

\* flow: [keys, media_id, mime, pending_job_code], the submitted fields the
\* code reads; flow_data.get("media_id") is truthy for a present, non-empty id.
HasMedia(flow) == "media_id" \in flow.keys /\ flow.media_id # ""

seeker_handle_registration_flow_completion(w, a, flow) ==
    LET w1 == Enter(w, "seeker.handle_registration_flow_completion")
        hasMedia == HasMedia(flow)
        w2 == IF hasMedia THEN save_cv_from_whatsapp(w1, flow.mime) ELSE w1
        cv_path == IF hasMedia THEN SavedCvPath(flow.mime) ELSE ""
        w3 == SaveCandidate(w2, a, cv_path)
    IN  IF subscription_enabled
        THEN _send_plan_selection(w3, a)
        ELSE LET w4 == Post(CompleteRegistration(w3, a), a,
                            "registration_confirmation", 0)
                 w5 == _get_or_create_state(w4, a)
                 fromCtx == CtxPendingCode(w5.conv[a].context)
                 pending_code ==
                     IF fromCtx # NoCode THEN fromCtx
                     ELSE IF "pending_job_code" \in flow.keys
                          THEN flow.pending_job_code ELSE NoCode
                 vid == VacancyByCode(w5, pending_code)
             IN  IF pending_code # NoCode /\ vid # 0
                 THEN _show_job_apply_prompt(w5, a, vid)
                 ELSE w5

\* The activation that leaves applications_used as it was.
ActivatePlan_count_kept(w, a, plan) ==
    IF ~Ok(w) THEN w
    ELSE [w EXCEPT !.cand[a].plan = plan,
                   !.cand[a].plan_expiry = now + duration_days(plan),
                   !.cand[a].registration_complete = TRUE,
                   !.cand[a].free_trial_used = (plan = "free_trial") \/ @]

ActivatePlan(w, a, plan) ==
    IF ~Ok(w) THEN w
    ELSE [w EXCEPT !.cand[a].plan = plan,
                   !.cand[a].plan_expiry = now + duration_days(plan),
                   !.cand[a].applications_used = 0,
                   !.cand[a].registration_complete = TRUE,
                   !.cand[a].free_trial_used = (plan = "free_trial") \/ @]

\* handle_plan_selection without the block on a used free trial.
handle_plan_selection_trial_again(w, a, plan_name) ==
    LET w1 == Enter(w, "handle_plan_selection")
    IN  IF ~w1.cand[a].exists THEN w1
        ELSE IF plan_name \notin PlanNames THEN w1
        ELSE LET w2 == Post(ActivatePlan(w1, a, plan_name), a,
                            "registration_confirmation", 0)
                 w3 == _get_or_create_state(w2, a)
                 pending_code == CtxPendingCode(w3.conv[a].context)
                 vid == VacancyByCode(w3, pending_code)
             IN  IF pending_code # NoCode /\ vid # 0
                 THEN _show_job_apply_prompt(w3, a, vid)
                 ELSE w3

handle_plan_selection(w, a, plan_name) ==
    LET w1 == Enter(w, "handle_plan_selection")
    IN  IF ~w1.cand[a].exists THEN w1
        ELSE IF plan_name \notin PlanNames THEN w1
        ELSE IF plan_name = "free_trial" /\ w1.cand[a].free_trial_used
        THEN _send_plan_selection(Post(w1, a, "trial_already_used", 0), a)
        ELSE LET w2 == Post(ActivatePlan(w1, a, plan_name), a,
                            "registration_confirmation", 0)
                 w3 == _get_or_create_state(w2, a)
                 pending_code == CtxPendingCode(w3.conv[a].context)
                 vid == VacancyByCode(w3, pending_code)
             IN  IF pending_code # NoCode /\ vid # 0
                 THEN _show_job_apply_prompt(w3, a, vid)
                 ELSE w3

\* AddApplication that leaves applications_used alone.
AddApplication_uncounted(w, a, vid) ==
    IF ~Ok(w) THEN w
    ELSE [w EXCEPT
              !.apps = Append(@, [candidate |-> a, vacancy_id |-> vid,
                                  status |-> "applied"])]

AddApplication(w, a, vid) ==
    IF ~Ok(w) THEN w
    ELSE [w EXCEPT
              !.apps = Append(@, [candidate |-> a, vacancy_id |-> vid,
                                  status |-> "applied"]),
              !.cand[a].applications_used = @ + 1]

\* handle_apply_now_button without the second look at the plan.
handle_apply_now_button_plan_unchecked(w, a, vacancy_id) ==
    LET w1 == Enter(w, "handle_apply_now_button")
        vid == VacancyById(w1, vacancy_id)
    IN  IF ~w1.cand[a].exists \/ vid = 0 THEN w1
        ELSE _set_state(Post(AddApplication(w1, a, vid), a,
                             "application_confirmation", vid),
                        a, "idle", EmptyCtx)

handle_apply_now_button(w, a, vacancy_id) ==
    LET w1 == Enter(w, "handle_apply_now_button")
        vid == VacancyById(w1, vacancy_id)
    IN  IF ~w1.cand[a].exists \/ vid = 0 THEN w1
        ELSE IF ~_has_active_plan(w1.cand[a])
        THEN Post(w1, a, "plan_renewal", 0)
        ELSE _set_state(Post(AddApplication(w1, a, vid), a,
                             "application_confirmation", vid),
                        a, "idle", EmptyCtx)

handle_update_cv_button(w, a, vacancy_id) ==
    _set_state(Post(Enter(w, "handle_update_cv_button"), a, "cv_form", vacancy_id),
               a, "seeker_updating_cv", CvCtx(vacancy_id))

UpdateCv(w, a, cv_path) ==
    IF ~Ok(w) THEN w
    ELSE [w EXCEPT !.cand[a].cv_path = cv_path, !.cand[a].cv_updates_used = @ + 1]

handle_cv_update_flow_completion(w, a, flow) ==
    LET w1 == Enter(w, "handle_cv_update_flow_completion")
    IN  IF ~HasMedia(flow)
        THEN Post(w1, a, "no_file_received", 0)
        ELSE LET w2 == save_cv_from_whatsapp(w1, flow.mime)
                 cv_path == SavedCvPath(flow.mime)
             IN  IF cv_path = ""
                 THEN Post(w2, a, "invalid_file_format", 0)
                 ELSE IF w2.cand[a].exists
                 THEN _set_state(Post(UpdateCv(w2, a, cv_path), a,
                                      "cv_update_confirmation", 0),
                                 a, "idle", EmptyCtx)
                 ELSE _set_state(w2, a, "idle", EmptyCtx)

ApplicationsOf(w, a) == {i \in 1..Len(w.apps) : w.apps[i].candidate = a}

handle_view_applications_button(w, a) ==
    LET w1 == Enter(w, "handle_view_applications_button")
    IN  IF ~w1.cand[a].exists THEN w1
        ELSE IF ApplicationsOf(w1, a) = {}
        THEN Post(w1, a, "no_applications_yet", 0)
        ELSE Post(w1, a, "applications_list", Cardinality(ApplicationsOf(w1, a)))

\* --------------------------------------------------------------- recruiter
\* recruiter.start without the lookup: every sender is taken to be new.
recruiter_start_always_new(w, a) ==
    _set_state(Post(Enter(w, "recruiter.start"), a, "recruiter_register_form", 0), a,
               "recruiter_registering", EmptyCtx)

recruiter_start(w, a) ==
    LET w1 == Enter(w, "recruiter.start")
    IN  IF RecruiterOf(w1, a) # 0
        THEN _set_state(Post(w1, a, "recruiter_welcome", 0), a, "recruiter_idle", EmptyCtx)
        ELSE _set_state(Post(w1, a, "recruiter_register_form", 0), a,
                        "recruiter_registering", EmptyCtx)

\* db.add(Recruiter(wa_number=a)); db.commit() on a column that is not unique.
InsertRecruiter_not_unique(w, a) ==
    IF ~Ok(w) THEN w
    ELSE [w EXCEPT !.recr = Append(@, [wa_number |-> a])]

\* db.add(Recruiter(wa_number=a)); db.commit(): wa_number is a unique column.
InsertRecruiter(w, a) ==
    IF ~Ok(w) THEN w
    ELSE IF \E i \in 1..Len(w.recr) : w.recr[i].wa_number = a
         THEN Raise(w, "IntegrityError")
         ELSE [w EXCEPT !.recr = Append(@, [wa_number |-> a])]

recruiter_handle_registration_flow_completion(w, a) ==
    LET w1 == InsertRecruiter(Enter(w, "recruiter.handle_registration_flow_completion"), a)
        w2 == Post(w1, a, "registration_confirmation", 0)
        w3 == Post(w2, a, "recruiter_welcome", 0)
    IN  _set_state(w3, a, "recruiter_idle", EmptyCtx)

\* db.add(JobVacancy(...)); db.commit(): job_code is a unique column.
InsertVacancy(w, code, rid) ==
    IF ~Ok(w) THEN w
    ELSE IF \E i \in 1..Len(w.vacs) : w.vacs[i].job_code = code
         THEN Raise(w, "IntegrityError")
         ELSE [w EXCEPT !.vacs = Append(@, NewVacancy(code, rid))]

\* handle_post_vacancy_flow_completion without the lookup's early return.
handle_post_vacancy_flow_completion_any_sender(w, a) ==
    LET w1 == Enter(w, "handle_post_vacancy_flow_completion")
        rid == RecruiterOf(w1, a)
        w2 == InsertVacancy(w1, generate_job_code(w1.vacs), rid)
        w3 == Post(w2, a, "vacancy_confirmation", Len(w2.vacs))
        w4 == IF AdminWaNumber # ""
              THEN Post(w3, AdminWaNumber, "admin_vacancy_alert", Len(w2.vacs))
              ELSE w3
    IN  _set_state(w4, a, "recruiter_idle", EmptyCtx)

handle_post_vacancy_flow_completion(w, a) ==
    LET w1 == Enter(w, "handle_post_vacancy_flow_completion")
        rid == RecruiterOf(w1, a)
        w2 == InsertVacancy(w1, generate_job_code(w1.vacs), rid)
        w3 == Post(w2, a, "vacancy_confirmation", Len(w2.vacs))
        w4 == IF AdminWaNumber # ""
              THEN Post(w3, AdminWaNumber, "admin_vacancy_alert", Len(w2.vacs))
              ELSE w3
    IN  IF rid = 0 THEN w1
        ELSE _set_state(w4, a, "recruiter_idle", EmptyCtx)

\* handle_post_vacancy_flow_completion in the parts between which the event
\* loop may run another handler: up to the first await (the recruiter lookup,
\* the job code, the insert and its commit) ...
post_vacancy_commit(w, a) ==
    LET w1 == Enter(w, "handle_post_vacancy_flow_completion")
        rid == RecruiterOf(w1, a)
    IN  IF rid = 0 THEN w1
        ELSE InsertVacancy(w1, generate_job_code(w1.vacs), rid)

\* ... the confirmation to the recruiter, awaited ...
post_vacancy_confirm(w, a, vid) == Post(w, a, "vacancy_confirmation", vid)

\* ... and the alert to the admin, awaited, then the state transition.
post_vacancy_alert(w, a, vid) ==
    _set_state(IF AdminWaNumber # ""
               THEN Post(w, AdminWaNumber, "admin_vacancy_alert", vid)
               ELSE w,
               a, "recruiter_idle", EmptyCtx)

VacanciesOf(w, rid) == {i \in 1..Len(w.vacs) : w.vacs[i].recruiter_id = rid}

handle_my_vacancies_button(w, a) ==
    LET w1 == Enter(w, "handle_my_vacancies_button")
        rid == RecruiterOf(w1, a)
    IN  IF rid = 0 THEN Post(w1, a, "not_registered_recruiter", 0)
        ELSE IF VacanciesOf(w1, rid) = {}
        THEN Post(w1, a, "no_vacancies_yet", 0)
        ELSE Post(w1, a, "vacancies_list", Cardinality(VacanciesOf(w1, rid)))

handle_post_vacancy_button(w, a) ==
    _set_state(Post(Enter(w, "handle_post_vacancy_button"), a, "post_vacancy_form", 0),
               a, "recruiter_posting_vacancy", EmptyCtx)

notify_recruiter_approval(w, vacancy_id) ==
    LET w1 == Enter(w, "notify_recruiter_approval")
        vid == VacancyById(w1, vacancy_id)
        w2 == [w1 EXCEPT !.vacs[vid].status = "approved", !.vacs[vid].approved_at = now]
    IN  IF vid = 0 THEN w1
        ELSE IF w1.vacs[vid].recruiter_id = 0 THEN w2
        ELSE Post(w2, w1.recr[w1.vacs[vid].recruiter_id].wa_number,
                  "vacancy_approved", vid)

notify_recruiter_rejection(w, vacancy_id, reason) ==
    LET w1 == Enter(w, "notify_recruiter_rejection")
        vid == VacancyById(w1, vacancy_id)
        w2 == [w1 EXCEPT !.vacs[vid].status = "rejected",
                         !.vacs[vid].rejection_reason = reason]
    IN  IF vid = 0 THEN w1
        ELSE IF w1.vacs[vid].recruiter_id = 0 THEN w2
        ELSE Post(w2, w1.recr[w1.vacs[vid].recruiter_id].wa_number,
                  "vacancy_rejected", vid)

\* ---------------------------------------------------------- global handler
send_help_menu(w, a) == Post(Enter(w, "send_help_menu"), a, "help_menu", 0)

GlobalButtonIds == {"menu_how_it_works", "menu_recruiter", "menu_seeker"}

\* handle_global_button returns True exactly for these ids.
IsGlobalButton(btn) == btn.suf = <<>> /\ btn.pre \in GlobalButtonIds

\* handle_global_button whose seeker choice goes on into the seeker workflow.
handle_global_button_seeker_flow(w, a, btn) ==
    LET w1 == Enter(w, "handle_global_button")
    IN  CASE btn.pre = "menu_how_it_works" /\ btn.suf = <<>> ->
                 _reset_state(Post(w1, a, "how_it_works", 0), a)
          [] btn.pre = "menu_recruiter" /\ btn.suf = <<>> -> recruiter_start(w1, a)
          [] btn.pre = "menu_seeker" /\ btn.suf = <<>> ->
                 handle_view_applications_button(Post(w1, a, "seeker_info", 0), a)
          [] OTHER -> w1

handle_global_button(w, a, btn) ==
    LET w1 == Enter(w, "handle_global_button")
    IN  CASE btn.pre = "menu_how_it_works" /\ btn.suf = <<>> ->
                 _reset_state(Post(w1, a, "how_it_works", 0), a)
          [] btn.pre = "menu_recruiter" /\ btn.suf = <<>> -> recruiter_start(w1, a)
          [] btn.pre = "menu_seeker" /\ btn.suf = <<>> -> Post(w1, a, "seeker_info", 0)
          [] OTHER -> w1

\* -------------------------------------------------------------- dispatcher
T_my_vacancy == <<" ", "M", "y", " ", "V", "a", "c", "a", "n", "c", "y", " ">>
T_my_vacancies == <<"m", "y", " ", "v", "a", "c", "a", "n", "c", "i", "e", "s">>
T_renew == <<"R", "e", "n", "e", "w">>
T_hello == <<"h", "e", "l", "l", "o">>
T_apply == <<"A", "p", "p", "l", "y", " ">>
K_my_vacancy == <<"m", "y", " ", "v", "a", "c", "a", "n", "c", "y">>
K_my_vacancies == <<"m", "y", " ", "v", "a", "c", "a", "n", "c", "i", "e", "s">>
K_renew == <<"r", "e", "n", "e", "w">>

\* candidate_handler_renew: asyncio.create_task(_send_plan_selection(...)).
candidate_handler_renew(w, a) ==
    LET w1 == Enter(w, "candidate_handler_renew")
    IN  IF Ok(w1) THEN [w1 EXCEPT !.tasks = Append(@, a)] ELSE w1

\* _handle_text that takes a text beginning with a keyword for the keyword.
_handle_text_keyword_prefix(w, a, text) ==
    LET normalized == Lower(Strip(text))
        job_code == parse_job_code(text)
        StartsWith(k) == Len(normalized) >= Len(k) /\ SubSeq(normalized, 1, Len(k)) = k
    IN  IF StartsWith(K_my_vacancy) \/ StartsWith(K_my_vacancies)
        THEN recruiter_start(w, a)
        ELSE IF job_code # NoCode THEN seeker_start(w, a, job_code)
        ELSE IF normalized = K_renew THEN candidate_handler_renew(w, a)
        ELSE send_help_menu(w, a)

_handle_text(w, a, text) ==
    LET normalized == Lower(Strip(text))
        job_code == parse_job_code(text)
    IN  IF normalized = K_my_vacancy \/ normalized = K_my_vacancies
        THEN recruiter_start(w, a)
        ELSE IF job_code # NoCode THEN seeker_start(w, a, job_code)
        ELSE IF normalized = K_renew THEN candidate_handler_renew(w, a)
        ELSE send_help_menu(w, a)

\* A button id is the string pre + suf: a static id (suf empty) or one of the
\* parameter-carrying prefixes followed by its suffix.
Static(btn, id) == btn.pre = id /\ btn.suf = <<>>

\* int(suffix): a ValueError for anything but decimal digits.
_handle_button(w, a, btn) ==
    LET w1 == handle_global_button(w, a, btn)
    IN  IF IsGlobalButton(btn) THEN w1
        ELSE IF Static(btn, "btn_post_vacancy") THEN handle_post_vacancy_button(w1, a)
        ELSE IF Static(btn, "btn_my_vacancies") THEN handle_my_vacancies_button(w1, a)
        ELSE IF Static(btn, "btn_callback") THEN handle_callback_button(w1, a)
        ELSE IF Static(btn, "btn_view_applications")
             THEN handle_view_applications_button(w1, a)
        ELSE IF btn.pre = "btn_register_" THEN handle_register_button(w1, a, btn.suf)
        ELSE IF btn.pre = "btn_apply_now_"
             THEN IF AllDigits(btn.suf)
                  THEN handle_apply_now_button(w1, a, IntOf(btn.suf))
                  ELSE Raise(w1, "ValueError")
        ELSE IF btn.pre = "btn_update_cv_"
             THEN IF AllDigits(btn.suf)
                  THEN handle_update_cv_button(w1, a, IntOf(btn.suf))
                  ELSE Raise(w1, "ValueError")
        ELSE w1

\* row_id.removeprefix("plan_") for the rows that start with "plan_".
PlanRows ==
    [plan_free_trial |-> "free_trial", plan_basic |-> "basic",
     plan_popular |-> "popular", plan_advanced |-> "advanced", plan_gold |-> "gold"]

_handle_list_reply(w, a, row_id) ==
    IF row_id \in DOMAIN PlanRows
    THEN handle_plan_selection(w, a, PlanRows[row_id])
    ELSE w

\* _handle_flow_reply that looks for skills before title and description.
_handle_flow_reply_skills_first(w, a, flow) ==
    IF "skills" \in flow.keys
    THEN seeker_handle_registration_flow_completion(w, a, flow)
    ELSE IF "title" \in flow.keys /\ "description" \in flow.keys
    THEN handle_post_vacancy_flow_completion(w, a)
    ELSE IF "media_id" \in flow.keys
    THEN handle_cv_update_flow_completion(w, a, flow)
    ELSE IF "company" \in flow.keys /\ "location" \in flow.keys
    THEN recruiter_handle_registration_flow_completion(w, a)
    ELSE w

_handle_flow_reply(w, a, flow) ==
    IF "title" \in flow.keys /\ "description" \in flow.keys
    THEN handle_post_vacancy_flow_completion(w, a)
    ELSE IF "skills" \in flow.keys
    THEN seeker_handle_registration_flow_completion(w, a, flow)
    ELSE IF "media_id" \in flow.keys /\ "skills" \notin flow.keys
    THEN handle_cv_update_flow_completion(w, a, flow)
    ELSE IF "company" \in flow.keys /\ "location" \in flow.keys
    THEN recruiter_handle_registration_flow_completion(w, a)
    ELSE w

\* _handle_document that takes an address without a record to be uploading
\* its CV.
_handle_document_no_record(w, a, mime_type) ==
    LET w1 == Enter(w, "_handle_document")
    IN  IF ~w1.conv[a].exists \/ w1.conv[a].state = "seeker_updating_cv"
        THEN LET w2 == save_cv_from_whatsapp(w1, mime_type)
                 cv_path == SavedCvPath(mime_type)
             IN  IF cv_path # ""
                 THEN IF w2.cand[a].exists
                      THEN Post(UpdateCv(w2, a, cv_path), a, "cv_update_confirmation", 0)
                      ELSE w2
                 ELSE Post(w2, a, "invalid_file_format", 0)
        ELSE Post(w1, a, "attach_via_apply_link", 0)

\* _handle_document that ends the CV update as the CV form does: state idle.
_handle_document_then_idle(w, a, mime_type) ==
    LET w1 == Enter(w, "_handle_document")
    IN  IF w1.conv[a].exists /\ w1.conv[a].state = "seeker_updating_cv"
        THEN LET w2 == save_cv_from_whatsapp(w1, mime_type)
                 cv_path == SavedCvPath(mime_type)
             IN  IF cv_path # ""
                 THEN IF w2.cand[a].exists
                      THEN _set_state(Post(UpdateCv(w2, a, cv_path), a,
                                           "cv_update_confirmation", 0),
                                      a, "idle", EmptyCtx)
                      ELSE w2
                 ELSE Post(w2, a, "invalid_file_format", 0)
        ELSE Post(w1, a, "attach_via_apply_link", 0)

_handle_document(w, a, mime_type) ==
    LET w1 == Enter(w, "_handle_document")
    IN  IF w1.conv[a].exists /\ w1.conv[a].state = "seeker_updating_cv"
        THEN LET w2 == save_cv_from_whatsapp(w1, mime_type)
                 cv_path == SavedCvPath(mime_type)
             IN  IF cv_path # ""
                 THEN IF w2.cand[a].exists
                      THEN Post(UpdateCv(w2, a, cv_path), a, "cv_update_confirmation", 0)
                      ELSE w2
                 ELSE Post(w2, a, "invalid_file_format", 0)
        ELSE Post(w1, a, "attach_via_apply_link", 0)

\* An inbound event: who sent it, its kind and the kind's payload.
Event(from, kind) ==
    [from |-> from, kind |-> kind, text |-> <<>>, pre |-> "", suf |-> <<>>,
     row |-> "", keys |-> {}, media_id |-> "", mime |-> "",
     pending_job_code |-> NoCode]

\* The template-button synonym table.
TemplateButton(payload) ==
    IF payload = "Post Vacancy" THEN [pre |-> "btn_post_vacancy", suf |-> <<>>]
    ELSE IF payload = "My Vacancies" THEN [pre |-> "btn_my_vacancies", suf |-> <<>>]
    ELSE [pre |-> payload, suf |-> <<>>]

\* dispatch: a message event is tracked and routed by its type; a status
\* event is skipped; a payload without the keys read first ("malformed")
\* raises KeyError; KeyError and IndexError are caught here.  route is the
\* routing by type, the handlers as they run on the world given to them.
route(w) ==
    LET ev == w.ev
    IN  CASE ev.kind = "malformed" -> Raise(w, "KeyError")
          [] ev.kind = "text" -> _handle_text(w, ev.from, ev.text)
          [] ev.kind = "button_reply" ->
                 _handle_button(w, ev.from, [pre |-> ev.pre, suf |-> ev.suf])
          [] ev.kind = "button" -> _handle_button(w, ev.from, TemplateButton(ev.pre))
          [] ev.kind = "list_reply" -> _handle_list_reply(w, ev.from, ev.row)
          [] ev.kind = "nfm_reply" -> _handle_flow_reply(w, ev.from, ev)
          [] ev.kind = "document" -> _handle_document(w, ev.from, ev.mime)
          [] OTHER -> w

\* dispatch that takes a status event for a message of its recipient: the
\* recipient is tracked and answered with the help menu.
dispatch_status_as_message(w) ==
    LET ev == w.ev
        to == CHOOSE a \in Addresses : TRUE
        w1 == IF ev.kind = "malformed" THEN w
              ELSE IF ev.kind = "status" THEN _track_user_message(w, to)
              ELSE _track_user_message(w, ev.from)
        w2 == IF ev.kind = "status" THEN send_help_menu(w1, to) ELSE route(w1)
    IN  IF w2.exc \in {"KeyError", "IndexError"} THEN [w2 EXCEPT !.exc = ""] ELSE w2

dispatch(w) ==
    LET ev == w.ev
        w1 == IF ev.kind \in {"status", "malformed"} THEN w
              ELSE _track_user_message(w, ev.from)
        w2 == route(w1)
    IN  IF w2.exc \in {"KeyError", "IndexError"} THEN [w2 EXCEPT !.exc = ""] ELSE w2

\* ------------------------------------------------------------------ inputs
\* The numbers of the job codes the environment quotes: those the bounded
\* table can hold and one that no vacancy has.
CodeNumbers == {FirstJobNumber} \cup (2..(MaxVacancies + 1))

JobCode(n) == JobCodePrefix \o Digits(n)

Reasons == {"r1"}

\* ----------------------------------------------------------------- actions
\* History of an address's last turns, kept for stating properties of a whole
\* path: "linked" after a job-code text was answered with the register and
\* callback choices, "tapped" after the Register button for that code was
\* tapped next, "formed" after the registration form was completed next;
\* any other turn of the address ends the path.
NoJourney == [stage |-> "none", code |-> NoCode]

JourneyAfter(j, w) ==
    IF /\ w.ev.kind = "text" /\ Ok(w) /\ Len(w.sent) = 1
       /\ w.sent[1].msg = "register_choices"
    THEN [stage |-> "linked", code |-> w.vacs[w.sent[1].ref].job_code]
    ELSE IF /\ j.stage = "linked" /\ w.ev.kind = "button_reply" /\ Ok(w)
            /\ w.ev.pre = "btn_register_" /\ w.ev.suf = j.code
    THEN [j EXCEPT !.stage = "tapped"]
    ELSE IF /\ j.stage = "tapped" /\ w.ev.kind = "nfm_reply" /\ Ok(w)
            /\ w.ran # <<>> /\ w.ran[1] = "seeker.handle_registration_flow_completion"
    THEN [j EXCEPT !.stage = "formed"]
    ELSE NoJourney

\* No vacancy-form handler of the address has run: where the handler is, the
\* recruiter and vacancy ids it holds, and the exception that ended it.
NoFlight == [pc |-> "none", rid |-> 0, vid |-> 0, exc |-> ""]

Init ==
    /\ conv = [a \in Addresses |-> NoConv]
    /\ cand = [a \in Addresses |-> NoCandidate]
    /\ recr = <<>>
    /\ vacs = <<>>
    /\ apps = <<>>
    /\ cbs = <<>>
    /\ tasks = <<>>
    /\ now = 0
    /\ subscription_enabled \in BOOLEAN
    /\ last = [ev |-> Event("", "none"), ran |-> <<>>, sent |-> <<>>, exc |-> "",
               resp |-> "", added |-> <<>>]
    /\ journey = [a \in Addresses |-> NoJourney]
    /\ inflight = [a \in Addresses |-> NoFlight]
    /\ otp_records = <<>>
    /\ otp_clock = 0

\* The tables stay within the model's bounds.
WithinBounds(w) ==
    /\ Len(w.vacs) <= MaxVacancies
    /\ Len(w.apps) <= MaxApps
    /\ Len(w.cbs) <= MaxCallbacks
    /\ Len(w.tasks) <= MaxTasks
    /\ \A a \in Addresses : w.cand[a].cv_updates_used <= MaxCvUpdates

\* The writes of a turn, or of a part of one, are what the store holds
\* afterwards.
Store(w) ==
    /\ conv' = [a \in Addresses |-> Persisted(w.conv[a])]
    /\ cand' = w.cand
    /\ recr' = w.recr
    /\ vacs' = w.vacs
    /\ apps' = w.apps
    /\ cbs' = w.cbs
    /\ tasks' = w.tasks
    /\ last' = [ev |-> w.ev, ran |-> w.ran, sent |-> w.sent, exc |-> w.exc,
                resp |-> w.resp, added |-> w.added]
    /\ journey' = [a \in Addresses |->
                       IF a = w.ev.from THEN JourneyAfter(journey[a], w)
                       ELSE journey[a]]
    /\ UNCHANGED <<now, subscription_enabled, otp_records, otp_clock>>

\* A turn that runs from start to end.
Commit(w) == WithinBounds(w) /\ Store(w) /\ UNCHANGED inflight

\* The exception classes the handlers raise; all derive from Exception.
Exceptions == {"KeyError", "IndexError", "ValueError", "HTTPStatusError", "IntegrityError"}

\* receive_webhook without the try: what dispatch raises reaches the server.
Respond_uncaught(w) == [w EXCEPT !.resp = IF w.exc = "" THEN "ok" ELSE "error"]

\* try: await dispatch(...) / except Exception: log / return {"status": "ok"}.
\* exc keeps what came out of dispatch, resp is what the request is answered.
Respond(w) ==
    [w EXCEPT !.resp = IF w.exc = "" \/ w.exc \in Exceptions THEN "ok" ELSE "error"]

\* POST /webhook: dispatch runs; whatever it raises is caught and logged.
receive_webhook(w) == Commit(Respond(dispatch(w)))

ReceiveText(a, text, failAt) ==
    receive_webhook(World([Event(a, "text") EXCEPT !.text = text], failAt))

ReceiveButtonReply(a, pre, suf, failAt) ==
    receive_webhook(World([Event(a, "button_reply") EXCEPT !.pre = pre, !.suf = suf],
                          failAt))

ReceiveTemplateButton(a, payload, failAt) ==
    receive_webhook(World([Event(a, "button") EXCEPT !.pre = payload], failAt))

ReceiveListReply(a, row, failAt) ==
    receive_webhook(World([Event(a, "list_reply") EXCEPT !.row = row], failAt))

Range(seq) == {seq[i] : i \in 1..Len(seq)}

\* The submitted fields of a completed form: the keys present (a sequence),
\* and the values of media_id, mime_type and pending_job_code.
ReceiveFlowReply(a, fields, media_id, mime, code, failAt) ==
    receive_webhook(World([Event(a, "nfm_reply") EXCEPT
                               !.keys = Range(fields), !.media_id = media_id, !.mime = mime,
                               !.pending_job_code = code],
                          failAt))

ReceiveDocument(a, mime, failAt) ==
    receive_webhook(World([Event(a, "document") EXCEPT !.mime = mime], failAt))

ReceiveStatus(failAt) == receive_webhook(World(Event("", "status"), failAt))

\* A payload that lacks "entry", "changes" or "value".
ReceiveMalformed(failAt) == receive_webhook(World(Event("", "malformed"), failAt))

\* The task 'renew' created runs _send_plan_selection on the event loop.
RunRenewTask(failAt) ==
    /\ tasks # <<>>
    /\ Commit(_send_plan_selection(
                  [World(Event(Head(tasks), "task"), failAt) EXCEPT !.tasks = Tail(@)],
                  Head(tasks)))

\* POST /admin/api/vacancies/{id}/approve
api_approve_vacancy(vid, failAt) ==
    Commit(notify_recruiter_approval(
               World([Event("", "approve") EXCEPT !.row = "approve", !.suf = Digits(vid)],
                     failAt), vid))

\* POST /admin/api/vacancies/{id}/reject
api_reject_vacancy(vid, reason, failAt) ==
    Commit(notify_recruiter_rejection(
               World([Event("", "reject") EXCEPT !.row = reason, !.suf = Digits(vid)],
                     failAt), vid, reason))

\* The event of a completed vacancy form.
VacancyFormEvent(a) == [Event(a, "nfm_reply") EXCEPT !.keys = {"title", "description"}]

\* A part of a turn ends: the store holds its writes and the handler of
\* address a is where flight says.
Suspend(w, a, flight) ==
    /\ Len(w.vacs) <= MaxParallelVacancies
    /\ Store(w)
    /\ inflight' = [inflight EXCEPT ![a] = flight]

\* POST /webhook with a vacancy form of a: dispatch runs up to the first
\* await of the handler that suspends it (or to the end, when there is no
\* recruiter row or the insert fails).
BeginVacancyForm(a) ==
    /\ inflight[a].pc \in {"none", "returned"}
    /\ LET w == post_vacancy_commit(
                     _track_user_message(World(VacancyFormEvent(a), 0), a), a)
           rid == RecruiterOf(w, a)
       IN  Suspend(w, a,
                   IF rid = 0 \/ ~Ok(w)
                   THEN [pc |-> "returned", rid |-> rid, vid |-> 0, exc |-> w.exc]
                   ELSE [pc |-> "await_confirmation", rid |-> rid,
                         vid |-> Len(w.vacs), exc |-> ""])

\* The gateway has answered the confirmation; the handler goes on to the
\* admin alert.
ResumeAfterConfirmation(a) ==
    /\ inflight[a].pc = "await_confirmation"
    /\ LET w == post_vacancy_confirm(World(VacancyFormEvent(a), 0), a, inflight[a].vid)
       IN  Suspend(w, a, [inflight[a] EXCEPT !.pc = "await_admin_alert"])

\* The gateway has answered the admin alert; the handler sets the state and
\* returns.
ResumeAfterAlert(a) ==
    /\ inflight[a].pc = "await_admin_alert"
    /\ LET w == Respond(post_vacancy_alert(World(VacancyFormEvent(a), 0), a,
                                           inflight[a].vid))
       IN  Suspend(w, a, [inflight[a] EXCEPT !.pc = "returned", !.exc = w.exc])

Tick ==
    /\ now < MaxClockSteps * ClockStepDays
    /\ now' = now + ClockStepDays
    /\ last' = [ev |-> Event("", "tick"), ran |-> <<>>, sent |-> <<>>, exc |-> "",
                resp |-> "", added |-> <<>>]
    /\ UNCHANGED <<conv, cand, recr, vacs, apps, cbs, tasks, subscription_enabled,
                   journey, inflight, otp_records, otp_clock>>

\* api._require_session: the token resolves to the caller's address, or
\* HTTPException(401).
_require_session(w, session_ok) == IF session_ok THEN w ELSE Raise(w, "HTTP401")

\* POST /api/recruiters/vacancy: a recruiter row is made for a new address,
\* then the job code, the insert and the two notices.
post_vacancy_web(w, a, session_ok) ==
    LET w1 == _require_session(Enter(w, "post_vacancy_web"), session_ok)
        w2 == IF RecruiterOf(w1, a) = 0 THEN InsertRecruiter(w1, a) ELSE w1
        w3 == InsertVacancy(w2, generate_job_code(w2.vacs), RecruiterOf(w2, a))
        w4 == Post(w3, a, "vacancy_confirmation", Len(w3.vacs))
    IN  IF AdminWaNumber # ""
        THEN Post(w4, AdminWaNumber, "admin_vacancy_alert", Len(w3.vacs))
        ELSE w4

\* edit_rejected_vacancy that looks the vacancy up by its id alone.
edit_rejected_vacancy_any_owner(w, a, session_ok, vacancy_id, title) ==
    LET w1 == _require_session(Enter(w, "edit_rejected_vacancy"), session_ok)
        rid == RecruiterOf(w1, a)
        vid == VacancyById(w1, vacancy_id)
    IN  IF ~Ok(w1) THEN w1
        ELSE IF rid = 0 THEN Raise(w1, "HTTP404")
        ELSE IF vid = 0 THEN Raise(w1, "HTTP404")
        ELSE IF w1.vacs[vid].status # "rejected" THEN Raise(w1, "HTTP400")
        ELSE IF Strip(title) = <<>> THEN Raise(w1, "HTTP422")
        ELSE [w1 EXCEPT !.vacs[vid].status = "pending",
                        !.vacs[vid].rejection_reason = "",
                        !.vacs[vid].approved_at = NoTime,
                        !.vacs[vid].is_edited = TRUE]

\* POST /api/recruiters/vacancy/edit: the session, the recruiter of the
\* caller, the vacancy with that id and that recruiter, its status, the
\* required fields; then the reset to pending.
edit_rejected_vacancy(w, a, session_ok, vacancy_id, title) ==
    LET w1 == _require_session(Enter(w, "edit_rejected_vacancy"), session_ok)
        rid == RecruiterOf(w1, a)
        vid == IF /\ VacancyById(w1, vacancy_id) # 0
                  /\ w1.vacs[vacancy_id].recruiter_id = rid
               THEN vacancy_id ELSE 0
    IN  IF ~Ok(w1) THEN w1
        ELSE IF rid = 0 THEN Raise(w1, "HTTP404")
        ELSE IF vid = 0 THEN Raise(w1, "HTTP404")
        ELSE IF w1.vacs[vid].status # "rejected" THEN Raise(w1, "HTTP400")
        ELSE IF Strip(title) = <<>> THEN Raise(w1, "HTTP422")
        ELSE [w1 EXCEPT !.vacs[vid].status = "pending",
                        !.vacs[vid].rejection_reason = "",
                        !.vacs[vid].approved_at = NoTime,
                        !.vacs[vid].is_edited = TRUE]

\* The request of the edit: who asks, with a session of theirs or without,
\* for which vacancy and with which title.
EditEvent(a, session_ok, vacancy_id, title) ==
    [Event(a, "edit_vacancy") EXCEPT
         !.row = IF session_ok THEN "session" ELSE "no_session",
         !.suf = Digits(vacancy_id), !.text = title]

api_edit_rejected_vacancy(a, session_ok, vacancy_id, title) ==
    Commit(edit_rejected_vacancy(World(EditEvent(a, session_ok, vacancy_id, title), 0),
                                 a, session_ok, vacancy_id, title))

\* A turn of the specification that fills the vacancy table.
CommitSequential(w) ==
    /\ Len(w.vacs) <= MaxSequentialVacancies
    /\ Store(w)
    /\ UNCHANGED inflight

SequentialWebPost(a) ==
    CommitSequential(post_vacancy_web(World(Event(a, "web_vacancy"), 0), a, TRUE))

SequentialFormPost(a) ==
    CommitSequential(Respond(dispatch(World(VacancyFormEvent(a), 0))))

\* ---------------------------------------------------------------- one-time codes
\* otp.OTP_TTL_MINUTES
OTP_TTL_MINUTES == 5

\* The codes generate_otp draws in the model: six digits each, and a draw
\* may repeat an earlier one.
OtpCodes == {<<"0", "0", "0", "0", "0", "0">>, <<"1", "2", "3", "4", "5", "6">>}

\* create_otp that leaves the earlier records as they are.
create_otp_keep_old(records, wa_number, otp_code, t) ==
    Append(records,
           [wa_number |-> wa_number, otp_code |-> otp_code,
            expires_at |-> t + OTP_TTL_MINUTES, used |-> FALSE])

\* otp.create_otp with the code drawn and the time read: every unused record
\* of the number is marked used, then the new record is added.
create_otp(records, wa_number, otp_code, t) ==
    Append([i \in 1..Len(records) |->
                IF records[i].wa_number = wa_number /\ ~records[i].used
                THEN [records[i] EXCEPT !.used = TRUE]
                ELSE records[i]],
           [wa_number |-> wa_number, otp_code |-> otp_code,
            expires_at |-> t + OTP_TTL_MINUTES, used |-> FALSE])

\* The query of verify_otp: the first record of the number with the code,
\* unused and expiring after t; its id, 0 for None.
OtpMatch(records, wa_number, otp_code, t) ==
    LET Hit(i) == /\ records[i].wa_number = wa_number
                  /\ records[i].otp_code = otp_code
                  /\ ~records[i].used
                  /\ records[i].expires_at > t
    IN  IF \E i \in 1..Len(records) : Hit(i)
        THEN CHOOSE i \in 1..Len(records) : Hit(i) /\ \A j \in 1..(i - 1) : ~Hit(j)
        ELSE 0

\* verify_otp that returns without marking the record.
verify_otp_unmarked(records, wa_number, otp_code, t) == records

\* otp.verify_otp, the table it leaves: the record found is marked used.
verify_otp(records, wa_number, otp_code, t) ==
    LET i == OtpMatch(records, wa_number, otp_code, t)
    IN  IF i # 0 THEN [records EXCEPT ![i].used = TRUE] ELSE records

\* POST /api/otp/send: create_otp commits, the conversation row of the number
\* is read for the 24-hour window (reading last_user_message_at of a loaded
\* row raises AttributeError, the mapping has no such attribute), and with no
\* row the code goes out as a template.
api_send_otp(a, otp_code) ==
    /\ Len(otp_records) < MaxOtpRecords
    /\ otp_records' = create_otp(otp_records, a, otp_code, otp_clock)
    /\ LET w0 == Enter(World([Event(a, "otp_send") EXCEPT !.suf = otp_code], 0),
                       "send_otp")
           w1 == IF "last_user_message_at" \notin ConversationStateColumns
                    /\ conv[a].exists
                 THEN Raise(w0, "AttributeError")
                 ELSE Post(w0, a, "otp_template", 0)
       IN  last' = [ev |-> w1.ev, ran |-> w1.ran, sent |-> w1.sent, exc |-> w1.exc,
                    resp |-> IF Ok(w1) THEN "otp_sent" ELSE "error", added |-> <<>>]
    /\ UNCHANGED <<conv, cand, recr, vacs, apps, cbs, tasks, now,
                   subscription_enabled, journey, inflight, otp_clock>>

\* POST /api/otp/verify: verify_otp, then a session token or HTTP 400.
api_verify_otp(a, otp_code) ==
    /\ otp_records' = verify_otp(otp_records, a, otp_code, otp_clock)
    /\ LET found == OtpMatch(otp_records, a, otp_code, otp_clock) # 0
       IN  last' = [ev |-> [Event(a, "otp_verify") EXCEPT !.suf = otp_code],
                    ran |-> <<"verify_otp">>, sent |-> <<>>,
                    exc |-> IF found THEN "" ELSE "HTTP400",
                    resp |-> IF found THEN "session_token" ELSE "error",
                    added |-> <<>>]
    /\ UNCHANGED <<conv, cand, recr, vacs, apps, cbs, tasks, now,
                   subscription_enabled, journey, inflight, otp_clock>>

\* A minute passes.
OtpTick ==
    /\ otp_clock < MaxOtpMinutes
    /\ otp_clock' = otp_clock + 1
    /\ last' = [ev |-> Event("", "tick"), ran |-> <<>>, sent |-> <<>>, exc |-> "",
                resp |-> "", added |-> <<>>]
    /\ UNCHANGED <<conv, cand, recr, vacs, apps, cbs, tasks, now,
                   subscription_enabled, journey, inflight, otp_records>>

\* ---------------------------------------------------------- specifications
\* Spec: one address goes through the seeker workflow while another registers
\* as a recruiter and posts the vacancies that moderation approves or
\* rejects; the gateway accepts every request.
Seekers == {"a1"}

Recruiters == {"a2"}

SeekerTexts ==
    {T_hello} \cup {T_apply \o JobCode(n) : n \in CodeNumbers}
        \cup {Lower(T_apply \o JobCode(FirstJobNumber))}

\* Button ids as <<prefix, suffix>>.
SeekerButtons ==
    {<<"btn_callback", <<>>>>}
        \cup {<<"btn_register_", JobCode(n)>> : n \in CodeNumbers}
        \cup {<<"btn_apply_now_", Digits(n)>> : n \in 1..(MaxVacancies + 1)}

SeekerRows == {"plan_free_trial", "plan_advanced", "plan_gold"}

\* Forms as the sequence of the keys submitted.
SeekerFlows == {<<"skills">>}

RecruiterTexts == {T_my_vacancy, T_my_vacancies}

RecruiterButtons == {<<"menu_recruiter", <<>>>>}

RecruiterFlows == {<<"company", "location">>, <<"title", "description">>}

Next ==
    \/ \E a \in Seekers, text \in SeekerTexts : ReceiveText(a, text, 0)
    \/ \E a \in Recruiters, text \in RecruiterTexts : ReceiveText(a, text, 0)
    \/ \E a \in Recruiters, btn \in RecruiterButtons :
           ReceiveButtonReply(a, btn[1], btn[2], 0)
    \/ \E a \in Seekers, btn \in SeekerButtons : ReceiveButtonReply(a, btn[1], btn[2], 0)
    \/ \E a \in Seekers, row \in SeekerRows : ReceiveListReply(a, row, 0)
    \/ \E a \in Seekers, flow \in SeekerFlows :
           ReceiveFlowReply(a, flow, "", "", NoCode, 0)
    \/ \E a \in Recruiters, flow \in RecruiterFlows :
           ReceiveFlowReply(a, flow, "", "", NoCode, 0)
    \/ \E vid \in 1..(MaxVacancies + 1) : api_approve_vacancy(vid, 0)
    \/ \E vid \in 1..(MaxVacancies + 1), r \in Reasons : api_reject_vacancy(vid, r, 0)
    \/ Tick

Spec == Init /\ [][Next]_vars

\* SpecRouting: one address sends every kind of event the dispatcher routes,
\* in every conversation state it can be in (it may be recruiter and seeker at
\* once); the gateway accepts every request.
RoutingUsers == {"a1"}

T_keyword_and_code == T_my_vacancy \o JobCode(FirstJobNumber)

RoutingTexts ==
    {T_hello, T_my_vacancy, T_my_vacancies, T_renew, T_keyword_and_code,
     T_apply \o JobCode(FirstJobNumber), T_apply \o JobCode(MaxVacancies + 1)}

RoutingButtons ==
    {<<id, <<>>>> : id \in GlobalButtonIds \cup {"btn_post_vacancy", "btn_my_vacancies"}}
        \cup {<<"btn_register_", JobCode(FirstJobNumber)>>}
        \cup {<<"btn_update_cv_", Digits(1)>>}
        \cup {<<pre, suf>> : pre \in {"btn_apply_now_", "btn_update_cv_"},
                              suf \in {<<>>, <<"x">>, <<"1", "x">>}}

RoutingTemplatePayloads == {"Post Vacancy", "My Vacancies", "menu_seeker"}

RoutingFlows ==
    {<<"title", "description">>, <<"skills", "title", "description">>,
     <<"skills">>, <<"skills", "media_id">>, <<"media_id">>,
     <<"media_id", "company", "location">>, <<"company", "location">>,
     <<"company">>, <<"title">>, <<>>}

RoutingRows == {"plan_free_trial", "other_row"}

\* The MIME types of the documents uploaded: one allowed, one not.
RoutingMimes == {"application/pdf", "image/png"}

NextRouting ==
    \/ \E a \in RoutingUsers, text \in RoutingTexts : ReceiveText(a, text, 0)
    \/ \E a \in RoutingUsers, btn \in RoutingButtons :
           ReceiveButtonReply(a, btn[1], btn[2], 0)
    \/ \E a \in RoutingUsers, payload \in RoutingTemplatePayloads :
           ReceiveTemplateButton(a, payload, 0)
    \/ \E a \in RoutingUsers, row \in RoutingRows : ReceiveListReply(a, row, 0)
    \/ \E a \in RoutingUsers, flow \in RoutingFlows :
           \E mime \in IF "media_id" \in Range(flow) THEN RoutingMimes
                        ELSE {"application/pdf"} :
               ReceiveFlowReply(a, flow, "m1", mime, NoCode, 0)
    \/ \E a \in RoutingUsers, mime \in RoutingMimes : ReceiveDocument(a, mime, 0)
    \/ ReceiveStatus(0)
    \/ ReceiveMalformed(0)
    \/ RunRenewTask(0)
    \/ \E vid \in 1..MaxVacancies : api_approve_vacancy(vid, 0)

SpecRouting == Init /\ [][NextRouting]_vars

\* SpecGateway: one address registers as recruiter and as seeker, posts a
\* vacancy and applies, while the gateway refuses the first or the second
\* request of a turn, or none.
MaxFailAt == 2

GatewayUsers == {"a1"}

GatewayTexts == {T_my_vacancy, T_hello}

GatewayButtons ==
    {<<"menu_recruiter", <<>>>>, <<"btn_apply_now_", Digits(1)>>,
     <<"btn_apply_now_", <<"x">>>>}

GatewayFlows == {<<"company", "location">>, <<"title", "description">>, <<"skills">>}

GatewayRows == {"plan_free_trial"}

NextGateway ==
    \/ \E a \in GatewayUsers, text \in GatewayTexts, f \in 0..MaxFailAt :
           ReceiveText(a, text, f)
    \/ \E a \in GatewayUsers, btn \in GatewayButtons, f \in 0..MaxFailAt :
           ReceiveButtonReply(a, btn[1], btn[2], f)
    \/ \E a \in GatewayUsers, flow \in GatewayFlows, f \in 0..MaxFailAt :
           ReceiveFlowReply(a, flow, "", "", NoCode, f)
    \/ \E a \in GatewayUsers, row \in GatewayRows, f \in 0..MaxFailAt :
           ReceiveListReply(a, row, f)

SpecGateway == Init /\ [][NextGateway]_vars

\* SpecParallel: two addresses register as recruiters and complete vacancy
\* forms whose handlers the event loop interleaves at their awaits; the
\* gateway accepts every request.
ParallelRecruiters == {"a1", "a2"}

NextParallel ==
    \/ \E a \in ParallelRecruiters :
           ReceiveFlowReply(a, <<"company", "location">>, "", "", NoCode, 0)
    \/ \E a \in ParallelRecruiters : BeginVacancyForm(a)
    \/ \E a \in ParallelRecruiters : ResumeAfterConfirmation(a)
    \/ \E a \in ParallelRecruiters : ResumeAfterAlert(a)

SpecParallel == Init /\ [][NextParallel]_vars

\* SpecCodes: one recruiter posts vacancies one after the other, from the
\* website or by completing the vacancy form, until the table holds a
\* thousand; the gateway accepts every request.
CodeRecruiters == {"a2"}

NextCodes ==
    \/ \E a \in CodeRecruiters : SequentialWebPost(a)
    \/ \E a \in CodeRecruiters : SequentialFormPost(a)

SpecCodes == Init /\ [][NextCodes]_vars

\* SpecModeration: the addresses register as recruiters, one vacancy is
\* posted, moderation approves and rejects it and either recruiter asks to
\* edit and resubmit it, with a session and without, with a title of text
\* and with one of blanks, while the clock runs; the gateway accepts every
\* request.
NextModeration ==
    \/ \E a \in Addresses :
           ReceiveFlowReply(a, <<"company", "location">>, "", "", NoCode, 0)
    \/ \E a \in Addresses :
           ReceiveFlowReply(a, <<"title", "description">>, "", "", NoCode, 0)
    \/ \E vid \in 1..(MaxVacancies + 1) : api_approve_vacancy(vid, 0)
    \/ \E vid \in 1..(MaxVacancies + 1), r \in Reasons : api_reject_vacancy(vid, r, 0)
    \/ \E a \in Addresses, session_ok \in BOOLEAN,
          vid \in 1..(MaxVacancies + 1), title \in {<<"t">>, <<" ">>} :
           api_edit_rejected_vacancy(a, session_ok, vid, title)
    \/ Tick

SpecModeration == Init /\ [][NextModeration]_vars

\* SpecParse: a text is typed and then sent: every text of at most
\* MaxTextLen characters out of a letter in lower case, one in upper case,
\* the colon, a digit and the blank; and, after each vacancy posted from the
\* website to a table that starts empty, the text of the apply link for the
\* job code that would be generated next.
ParseTexts == UNION {[1..n -> {"j", "C", ":", "1", " "}] : n \in 0..MaxTextLen}

InitParse ==
    /\ conv = [a \in Addresses |-> NoConv]
    /\ cand = [a \in Addresses |-> NoCandidate]
    /\ recr = <<>>
    /\ vacs = <<>>
    /\ apps = <<>>
    /\ cbs = <<>>
    /\ tasks = <<>>
    /\ now = 0
    /\ subscription_enabled \in BOOLEAN
    /\ \E text \in ParseTexts :
           last = [ev |-> [Event("", "none") EXCEPT !.text = text], ran |-> <<>>,
                   sent |-> <<>>, exc |-> "", resp |-> "", added |-> <<>>]
    /\ journey = [a \in Addresses |-> NoJourney]
    /\ inflight = [a \in Addresses |-> NoFlight]
    /\ otp_records = <<>>
    /\ otp_clock = 0

\* The text typed is sent.
SendTypedText(a) ==
    /\ last.ev.kind = "none"
    /\ ReceiveText(a, last.ev.text, 0)

\* The apply link of the job code that generate_job_code returns is tapped.
SendApplyLink(a) ==
    /\ last.ev.kind = "web_vacancy"
    /\ CommitSequential(Respond(dispatch(
           World([Event(a, "text") EXCEPT !.text = T_apply \o generate_job_code(vacs)],
                 0))))

NextParse ==
    \/ \E a \in RoutingUsers : SendTypedText(a)
    \/ \E a \in CodeRecruiters :
           /\ last.ev.kind = "web_vacancy" \/ (last.ev.kind = "none" /\ last.ev.text = <<>>)
           /\ SequentialWebPost(a)
    \/ \E a \in RoutingUsers : SendApplyLink(a)

SpecParse == InitParse /\ [][NextParse]_vars

\* SpecOtp: codes are sent to two numbers and tried, with minutes passing and
\* one of the numbers starting a chat.
NextOtp ==
    \/ \E a \in Addresses, code \in OtpCodes : api_send_otp(a, code)
    \/ \E a \in Addresses, code \in OtpCodes : api_verify_otp(a, code)
    \/ OtpTick
    \/ \E a \in RoutingUsers : ~conv[a].exists /\ ReceiveText(a, T_hello, 0)

SpecOtp == Init /\ [][NextOtp]_vars

\* SpecEntitlement: one address registers as a seeker, selects plans and taps
\* Apply-Now more often than the smallest cap allows, for a vacancy posted
\* from the website; the clock moves.
CommitEntitlement(w) ==
    /\ Len(w.apps) <= MaxEntitlementApps
    /\ Len(w.vacs) <= MaxVacancies
    /\ Store(w)
    /\ UNCHANGED inflight

EntitlementForm(a) ==
    CommitEntitlement(Respond(dispatch(
        World([Event(a, "nfm_reply") EXCEPT !.keys = {"skills"}], 0))))

EntitlementRow(a, row) ==
    CommitEntitlement(Respond(dispatch(
        World([Event(a, "list_reply") EXCEPT !.row = row], 0))))

EntitlementApply(a, vid) ==
    CommitEntitlement(Respond(dispatch(
        World([Event(a, "button_reply") EXCEPT !.pre = "btn_apply_now_",
                                               !.suf = Digits(vid)], 0))))

EntitlementPost(a) ==
    CommitEntitlement(post_vacancy_web(World(Event(a, "web_vacancy"), 0), a, TRUE))

NextEntitlement ==
    \/ \E a \in Seekers : EntitlementForm(a)
    \/ \E a \in Seekers, row \in {"plan_free_trial", "plan_advanced"} :
           EntitlementRow(a, row)
    \/ \E a \in Seekers, vid \in 1..MaxVacancies : EntitlementApply(a, vid)
    \/ \E a \in Recruiters : EntitlementPost(a)
    \/ Tick

SpecEntitlement == Init /\ [][NextEntitlement]_vars

\* -------------------------------------------------------------- properties
\* A step's event is the one recorded in last'; the unprimed variables are the
\* tables before the event was handled and the primed ones the tables after.
\* An absent conversation row stands for state idle with an empty context.
StateTag(c) == IF c.exists THEN c.state ELSE "idle"

ContextOf(c) == IF c.exists THEN c.context ELSE EmptyCtx

HasApplied(a, vid) ==
    \E i \in 1..Len(apps) : apps[i].candidate = a /\ apps[i].vacancy_id = vid

ApplicationsFor(rows, a, vid) ==
    {i \in 1..Len(rows) : rows[i].candidate = a /\ rows[i].vacancy_id = vid}

\* The step handles address a's tap on btn_apply_now_<vid>.
TapsApplyNow(a, vid) ==
    /\ last'.ev.from = a
    /\ last'.ev.kind = "button_reply"
    /\ last'.ev.pre = "btn_apply_now_"
    /\ last'.ev.suf = Digits(vid)

\* The step handles address a's choice of a row of the plan list.
SelectsRow(a, row) ==
    /\ last'.ev.from = a
    /\ last'.ev.kind = "list_reply"
    /\ last'.ev.row = row

\* The turn sent exactly these message kinds, in this order, all to address a.
SentTo(turn, a, kinds) ==
    /\ Len(turn.sent) = Len(kinds)
    /\ \A i \in 1..Len(kinds) : turn.sent[i].to = a /\ turn.sent[i].msg = kinds[i]

\* C1: after any sequence of events there is at most one application row for
\* a (candidate, vacancy) pair.
C1_OneApplicationPerPair ==
    \A i, j \in 1..Len(apps) :
        (apps[i].candidate = apps[j].candidate /\ apps[i].vacancy_id = apps[j].vacancy_id)
            => i = j

C3_EntitlementRecheckedAtApply ==
    [][\A a \in Addresses, vid \in 1..MaxVacancies :
           (/\ TapsApplyNow(a, vid)
            /\ cand[a].exists
            /\ vid <= Len(vacs)
            /\ ~_has_active_plan(cand[a]))
           => /\ apps' = apps
              /\ cand' = cand
              /\ StateTag(conv'[a]) = StateTag(conv[a])
              /\ ContextOf(conv'[a]) = ContextOf(conv[a])
              /\ SentTo(last', a, <<"plan_renewal">>)]_vars

\* C3 happens: the prompt was shown while the plan was active (the state is
\* still seeker_viewing_job) and the tap was answered with the renewal notice.
C3_Witness ==
    \E a \in Addresses :
        /\ last.ev.from = a /\ last.ev.pre = "btn_apply_now_"
        /\ SentTo(last, a, <<"plan_renewal">>)
        /\ conv[a].state = "seeker_viewing_job"
        /\ cand[a].plan # NoPlan

\* C4: has_active_plan is true whenever enforcement is off; with enforcement
\* on it is false exactly when no plan is assigned, or plan_expiry has passed,
\* or the plan's max_applications is finite and applications_used has reached
\* it.
C4_HasActivePlan ==
    \A a \in Addresses :
        cand[a].exists =>
            (_has_active_plan(cand[a]) <=>
                (\/ ~subscription_enabled
                 \/ ~(\/ cand[a].plan = NoPlan
                      \/ (cand[a].plan_expiry # NoTime /\ cand[a].plan_expiry < now)
                      \/ (/\ cand[a].plan # NoPlan
                          /\ max_applications(cand[a].plan) # Unlimited
                          /\ cand[a].applications_used
                                 >= max_applications(cand[a].plan)))))

\* C4 happens: enforcement is on and a candidate on an unexpired plan has used
\* exactly as many applications as the plan allows.
C4_Witness ==
    \E a \in Addresses :
        /\ subscription_enabled
        /\ cand[a].plan = "free_trial"
        /\ cand[a].plan_expiry >= now
        /\ cand[a].applications_used = FreeTrialMaxApplications
        /\ ~_has_active_plan(cand[a])

\* C5: when a candidate whose free trial is used selects the free-trial row,
\* the plan list is sent again and plan_expiry, the plan, applications_used
\* and registration_complete stay as they were; and no step turns
\* free_trial_used from true to false.
C5_FreeTrialSingleUse ==
    [][\A a \in Addresses :
           /\ (cand[a].free_trial_used => cand'[a].free_trial_used)
           /\ (/\ SelectsRow(a, "plan_free_trial")
               /\ cand[a].exists
               /\ cand[a].free_trial_used)
              => /\ \E i \in 1..Len(last'.sent) :
                        last'.sent[i].to = a /\ last'.sent[i].msg = "plan_list"
                 /\ cand'[a].plan_expiry = cand[a].plan_expiry
                 /\ cand'[a].plan = cand[a].plan
                 /\ cand'[a].applications_used = cand[a].applications_used
                 /\ cand'[a].registration_complete = cand[a].registration_complete]_vars

\* C5 happens: the free-trial row was refused for a candidate who had applied
\* on the trial, after the clock had moved.
C5_Witness ==
    \E a \in Addresses :
        /\ last.ev.from = a /\ last.ev.row = "plan_free_trial"
        /\ SentTo(last, a, <<"trial_already_used", "plan_list">>)
        /\ cand[a].free_trial_used
        /\ cand[a].plan = "free_trial"
        /\ cand[a].applications_used > 0
        /\ cand[a].plan_expiry < now + FreeTrialDays

\* The text quotes the job code (in either case, not followed by a digit).
ContainsCode(text, code) ==
    \E i \in 1..Len(text) :
        /\ i + Len(code) - 1 <= Len(text)
        /\ Upper(SubSeq(text, i, i + Len(code) - 1)) = code
        /\ (i + Len(code) <= Len(text) => ~IsDigit(text[i + Len(code)]))

\* The step handles a free-text message of address a.
SendsText(a) == last'.ev.from = a /\ last'.ev.kind = "text"

\* C6: with enforcement on, a seeker who came in by the job-code text of an
\* approved vacancy, tapped Register, completed the registration form and now
\* selects a plan they may take is shown the apply prompt of that vacancy and
\* ends in seeker_viewing_job for it.
C6_PlanSelectionResumesPendingJob ==
    [][\A a \in Addresses, v \in 1..MaxVacancies :
           (/\ subscription_enabled
            /\ journey[a].stage = "formed"
            /\ v <= Len(vacs)
            /\ vacs[v].job_code = journey[a].code
            /\ vacs[v].status = "approved"
            /\ ~HasApplied(a, v)
            /\ \E row \in DOMAIN PlanRows :
                   /\ SelectsRow(a, row)
                   /\ PlanRows[row] \in PlanNames
                   /\ ~(PlanRows[row] = "free_trial" /\ cand[a].free_trial_used))
           => /\ \E i \in 1..Len(last'.sent) :
                     last'.sent[i] = [to |-> a, msg |-> "apply_prompt", ref |-> v,
                                      info |-> ""]
              /\ conv'[a].state = "seeker_viewing_job"
              /\ conv'[a].context = ViewingCtx(v, vacs[v].job_code)]_vars

C8_UnavailableJobCodeIsDeadEnd ==
    [][\A a \in Addresses, n \in CodeNumbers :
           (/\ SendsText(a)
            /\ ContainsCode(last'.ev.text, JobCode(n))
            /\ ~\E v \in 1..Len(vacs) :
                    vacs[v].job_code = JobCode(n) /\ vacs[v].status = "approved")
           => /\ SentTo(last', a, <<"no_longer_available">>)
              /\ StateTag(conv'[a]) = StateTag(conv[a])
              /\ ContextOf(conv'[a]) = ContextOf(conv[a])
              /\ cand' = cand
              /\ apps' = apps
              /\ cbs' = cbs]_vars

\* C8 happens: the code of a rejected vacancy was quoted by a candidate who
\* was viewing that job, and the state stayed seeker_viewing_job.
C8_Witness ==
    \E a \in Addresses :
        /\ last.ev.from = a /\ last.ev.kind = "text"
        /\ SentTo(last, a, <<"no_longer_available">>)
        /\ Len(vacs) >= 1 /\ vacs[1].status = "rejected"
        /\ ContainsCode(last.ev.text, vacs[1].job_code)
        /\ cand[a].exists
        /\ conv[a].state = "seeker_viewing_job"

\* The step handles a recruiter entry of address a: the text "my vacancy" or
\* "my vacancies" (as typed, with capitals and blanks around it) or the
\* recruiter button of the menu.
RecruiterEntry(a) ==
    /\ last'.ev.from = a
    /\ \/ last'.ev.kind = "text" /\ last'.ev.text \in {T_my_vacancy, T_my_vacancies}
       \/ /\ last'.ev.kind = "button_reply"
          /\ last'.ev.pre = "menu_recruiter" /\ last'.ev.suf = <<>>

IsRecruiter(a) == \E i \in 1..Len(recr) : recr[i].wa_number = a

C10_VacancyFormWithoutRecruiter ==
    [][\A a \in Addresses :
           (/\ last'.ev.from = a
            /\ last'.ev.kind = "nfm_reply"
            /\ {"title", "description"} \subseteq last'.ev.keys
            /\ ~IsRecruiter(a))
           => /\ vacs' = vacs
              /\ recr' = recr
              /\ last'.sent = <<>>
              /\ StateTag(conv'[a]) = StateTag(conv[a])
              /\ ContextOf(conv'[a]) = ContextOf(conv[a])]_vars

\* C10 happens: an address that was invited to register, and did not, sent the
\* vacancy form.
C10_Witness ==
    \E a \in Addresses :
        /\ last.ev.from = a /\ last.ev.kind = "nfm_reply"
        /\ {"title", "description"} \subseteq last.ev.keys
        /\ last.sent = <<>>
        /\ ~\E i \in 1..Len(recr) : recr[i].wa_number = a
        /\ conv[a].state = "recruiter_registering"
        /\ vacs = <<>>

\* The step handles address a's press of the button with this static id, as a
\* quick reply or as a template button.
PressesButton(a, id) ==
    /\ last'.ev.from = a
    /\ \/ last'.ev.kind = "button_reply" /\ last'.ev.pre = id /\ last'.ev.suf = <<>>
       \/ last'.ev.kind = "button" /\ last'.ev.pre = id

\* What the global handler itself sends.
GlobalReplies ==
    {"how_it_works", "seeker_info", "recruiter_welcome", "recruiter_register_form"}

\* C11 as stated: for a button press whose id is a top-level menu id, in any
\* conversation state, the global handler is the only handler that runs in
\* the turn; no recruiter or seeker handler runs.
C11_NoWorkflowHandlerRuns ==
    [][\A a \in Addresses, id \in GlobalButtonIds :
           PressesButton(a, id) => last'.ran = <<"handle_global_button">>]_vars

\* C11 as amended: for a button press whose id is a top-level menu id, in any
\* conversation state, the global handler runs first and owns the turn: every
\* reply of the turn is one of its own, and no recruiter or seeker handler
\* runs except recruiter entry, which the global handler itself calls for
\* menu_recruiter and for no other id.
C11_GlobalInterruptPrecedence ==
    [][\A a \in Addresses, id \in GlobalButtonIds :
           PressesButton(a, id)
           => /\ last'.ran = IF id = "menu_recruiter"
                             THEN <<"handle_global_button", "recruiter.start">>
                             ELSE <<"handle_global_button">>
              /\ Len(last'.sent) = 1
              /\ last'.sent[1].to = a
              /\ last'.sent[1].msg \in GlobalReplies
              /\ last'.exc = ""]_vars

\* C11 happens: the seeker choice of the menu was pressed by an address that
\* was in the middle of a CV update, and only the global handler ran.
C11_Witness ==
    \E a \in Addresses :
        /\ last.ev.from = a /\ last.ev.pre = "menu_seeker"
        /\ last.ran = <<"handle_global_button">>
        /\ SentTo(last, a, <<"seeker_info">>)
        /\ conv[a].state = "seeker_updating_cv"

\* The states of the multi-step flows.
MultiStepStates ==
    {"recruiter_registering", "recruiter_posting_vacancy", "seeker_pre_register",
     "seeker_registering", "seeker_selecting_plan", "seeker_viewing_job",
     "seeker_updating_cv"}

\* C12: from every state of a multi-step flow, pressing any top-level menu
\* button leaves the address outside the flow state it was in.
C12_MenuEscapesFlow ==
    [][\A a \in Addresses, id \in GlobalButtonIds :
           (PressesButton(a, id) /\ StateTag(conv[a]) \in MultiStepStates)
           => StateTag(conv'[a]) # StateTag(conv[a])]_vars

\* The four targets of free-text routing.
TextTargets ==
    {"recruiter.start", "seeker.start", "candidate_handler_renew", "send_help_menu"}

\* The handlers of the turn that are among the given ones, in order.
Among(ran, names) == SelectSeq(ran, LAMBDA h : h \in names)

\* The text is the keyword, in any case and with blanks around it.
IsKeyword(text, keyword) ==
    \E i \in 0..(Len(text) - Len(keyword)) :
        /\ \A k \in 1..Len(keyword) : LowerChar(text[i + k]) = keyword[k]
        /\ \A k \in 1..i : text[k] = " "
        /\ \A k \in (i + Len(keyword) + 1)..Len(text) : text[k] = " "

\* C13: a free-text message is routed to exactly one target: recruiter entry
\* when the text is 'my vacancy' or 'my vacancies' (in any case, blanks around
\* it ignored); otherwise seeker entry with the job code the text quotes;
\* otherwise plan selection, scheduled for the sender, when the text is
\* 'renew'; otherwise the help menu.  A text with a recruiter keyword and a
\* job code goes to seeker entry.
C13_TextRouting ==
    [][\A a \in Addresses :
           SendsText(a)
           => LET text == last'.ev.text
                  target ==
                      IF IsKeyword(text, K_my_vacancy) \/ IsKeyword(text, K_my_vacancies)
                      THEN "recruiter.start"
                      ELSE IF \E n \in CodeNumbers : ContainsCode(text, JobCode(n))
                      THEN "seeker.start"
                      ELSE IF IsKeyword(text, K_renew) THEN "candidate_handler_renew"
                      ELSE "send_help_menu"
              IN  /\ Among(last'.ran, TextTargets) = <<target>>
                  /\ last'.ran[1] = target
                  /\ target = "seeker.start" =>
                         \A n \in CodeNumbers :
                             ContainsCode(text, JobCode(n)) =>
                                 IF \E v \in 1..Len(vacs) :
                                        /\ vacs[v].job_code = JobCode(n)
                                        /\ vacs[v].status = "approved"
                                 THEN last'.sent[1].msg # "no_longer_available"
                                 ELSE SentTo(last', a, <<"no_longer_available">>)
                  /\ target = "candidate_handler_renew" =>
                         last'.sent = <<>> /\ tasks' = Append(tasks, a)
                  /\ target = "send_help_menu" => SentTo(last', a, <<"help_menu">>)]_vars

\* C13 happens: a registered recruiter sent a text with the keyword and the
\* code of an approved vacancy, and seeker entry answered it.
C13_Witness ==
    \E a \in Addresses :
        /\ last.ev.from = a /\ last.ev.kind = "text"
        /\ last.ev.text = T_keyword_and_code
        /\ last.ran[1] = "seeker.start"
        /\ SentTo(last, a, <<"register_choices">>)
        /\ \E i \in 1..Len(recr) : recr[i].wa_number = a

\* The four handlers of a completed form.
FlowTargets ==
    {"handle_post_vacancy_flow_completion",
     "seeker.handle_registration_flow_completion",
     "handle_cv_update_flow_completion",
     "recruiter.handle_registration_flow_completion"}

\* C14: a completed form goes to at most one handler, chosen by the keys it
\* holds, first match first: title and description, vacancy post; else
\* skills, seeker registration; else media_id, CV update; else company and
\* location, recruiter registration; else no handler runs, nothing is sent
\* and the state tag stays.
C14_FlowRouting ==
    [][\A a \in Addresses :
           (last'.ev.from = a /\ last'.ev.kind = "nfm_reply")
           => LET keys == last'.ev.keys
                  target ==
                      IF {"title", "description"} \subseteq keys
                      THEN "handle_post_vacancy_flow_completion"
                      ELSE IF "skills" \in keys
                      THEN "seeker.handle_registration_flow_completion"
                      ELSE IF "media_id" \in keys
                      THEN "handle_cv_update_flow_completion"
                      ELSE IF {"company", "location"} \subseteq keys
                      THEN "recruiter.handle_registration_flow_completion"
                      ELSE "none"
              IN  IF target = "none"
                  THEN /\ last'.ran = <<>>
                       /\ last'.sent = <<>>
                       /\ StateTag(conv'[a]) = StateTag(conv[a])
                  ELSE /\ Among(last'.ran, FlowTargets) = <<target>>
                       /\ last'.ran[1] = target]_vars

\* C14 happens: a registered recruiter's form held skills together with title
\* and description, and a vacancy was posted.
C14_Witness ==
    \E a \in Addresses :
        /\ last.ev.from = a /\ last.ev.kind = "nfm_reply"
        /\ last.ev.keys = {"skills", "title", "description"}
        /\ last.ran = <<"handle_post_vacancy_flow_completion">>
        /\ vacs # <<>>
        /\ ~cand[a].exists
        /\ conv[a].state = "recruiter_idle"

\* The kinds of event that arrive at POST /webhook.
WebhookKinds ==
    {"text", "button_reply", "button", "list_reply", "nfm_reply", "document",
     "status", "malformed"}

\* C15: dispatch returns normally for every inbound payload, a payload
\* without its required keys and an Apply-Now or Update-CV button id with a
\* non-numeric suffix included; for the non-numeric suffix no workflow handler
\* runs and no state or data changes.
C15_DispatchNeverRaises ==
    [][last'.ev.kind \in WebhookKinds
       => /\ last'.exc = ""
          /\ (/\ last'.ev.kind = "button_reply"
              /\ last'.ev.pre \in {"btn_apply_now_", "btn_update_cv_"}
              /\ ~AllDigits(last'.ev.suf))
             => /\ last'.ran = <<"handle_global_button">>
                /\ last'.sent = <<>>
                /\ StateTag(conv'[last'.ev.from]) = StateTag(conv[last'.ev.from])
                /\ UNCHANGED <<cand, recr, vacs, apps, cbs, tasks>>]_vars

\* C16: whatever dispatch does for a payload, raising any exception included,
\* POST /webhook answers status ok; and an event received after a turn that
\* ended in an exception is dispatched as usual (a text that is no keyword
\* and quotes no code goes to the help menu, which is sent unless the gateway
\* refuses it).
C16_NothingIsFatal ==
    [][last'.ev.kind \in WebhookKinds
       => /\ last'.resp = "ok"
          /\ (last.exc # "" /\ last'.ev.kind = "text" /\ last'.ev.text = T_hello)
             => /\ last'.ran = <<"send_help_menu">>
                /\ last'.exc \in {"", "HTTPStatusError"}
                /\ last'.exc = "" => SentTo(last', last'.ev.from, <<"help_menu">>)]_vars

\* C16 happens: the store refused a second recruiter registration of an
\* address, the exception left dispatch, and the request was answered ok.
C16_Witness ==
    /\ last.ev.kind = "nfm_reply"
    /\ last.exc = "IntegrityError"
    /\ last.resp = "ok"
    /\ Len(recr) = 1

\* The step handles a completed form of address a that holds these keys.
SubmitsForm(a, keys) ==
    /\ last'.ev.from = a
    /\ last'.ev.kind = "nfm_reply"
    /\ last'.ev.keys = keys

\* C17: when the gateway refuses a notification of the turn, the write that
\* came before it stays: an Apply-Now that passed its checks leaves its
\* application row and the incremented applications_used; a recruiter
\* registration leaves the Recruiter row; a vacancy form leaves the JobVacancy
\* row.
C17_FailedSendKeepsWrites ==
    [][\A a \in Addresses :
           last'.exc = "HTTPStatusError"
           => /\ (/\ TapsApplyNow(a, 1)
                  /\ cand[a].exists /\ Len(vacs) >= 1
                  /\ _has_active_plan(cand[a]))
                 => /\ apps' = Append(apps, [candidate |-> a, vacancy_id |-> 1,
                                              status |-> "applied"])
                    /\ cand'[a].applications_used = cand[a].applications_used + 1
              /\ (SubmitsForm(a, {"company", "location"}) /\ ~IsRecruiter(a))
                 => recr' = Append(recr, [wa_number |-> a])
              /\ (SubmitsForm(a, {"title", "description"}) /\ IsRecruiter(a))
                 => /\ Len(vacs') = Len(vacs) + 1
                    /\ vacs'[Len(vacs')].recruiter_id = RecruiterOf([recr |-> recr], a)
                    /\ vacs'[Len(vacs')].status = "pending"]_vars

\* C17 happens: the confirmation of an Apply-Now was refused and the
\* application is in the table, counted.
C17_Witness ==
    \E a \in Addresses :
        /\ last.ev.from = a /\ last.ev.pre = "btn_apply_now_"
        /\ last.exc = "HTTPStatusError"
        /\ last.sent = <<>>
        /\ Len(apps) = 1 /\ apps[1].candidate = a
        /\ cand[a].applications_used = 1

\* C18: a handler makes its state transition whether or not its notification
\* is sent: recruiter entry ends in recruiter_registering (no recruiter row)
\* or recruiter_idle (a row), a vacancy form of a recruiter ends in
\* recruiter_idle, an Apply-Now that passed its checks ends in idle.
C18_StateSetDespiteFailedSend ==
    [][\A a \in Addresses :
           /\ RecruiterEntry(a)
              => StateTag(conv'[a]) = IF IsRecruiter(a) THEN "recruiter_idle"
                                      ELSE "recruiter_registering"
           /\ (SubmitsForm(a, {"title", "description"}) /\ IsRecruiter(a))
              => StateTag(conv'[a]) = "recruiter_idle"
           /\ (/\ TapsApplyNow(a, 1)
               /\ cand[a].exists /\ Len(vacs) >= 1
               /\ _has_active_plan(cand[a]))
              => StateTag(conv'[a]) = "idle"]_vars

\* C19: when dispatch returns for a 'renew' text, the plan list has been sent
\* to the sender and the sender's state is seeker_selecting_plan.
C19_RenewDoneOnReturn ==
    [][\A a \in Addresses :
           (SendsText(a) /\ IsKeyword(last'.ev.text, K_renew))
           => /\ \E i \in 1..Len(last'.sent) :
                     last'.sent[i].to = a /\ last'.sent[i].msg = "plan_list"
              /\ conv'[a].exists
              /\ conv'[a].state = "seeker_selecting_plan"]_vars

\* The vacancy-form handler of a has created its vacancy.
HasPosted(a) == inflight[a].pc # "none" /\ inflight[a].rid # 0

CodeNumber(code) == IntOf(SubSeq(code, Len(JobCodePrefix) + 1, Len(code)))

\* C21: job codes are unique without collision handling: whatever vacancies
\* have been created one at a time, the code generate_job_code returns next
\* is held by no vacancy of the table.
C21_GeneratedCodeIsFresh ==
    \A i \in 1..Len(vacs) : vacs[i].job_code # generate_job_code(vacs)

\* C22: whatever the table holds, the number of the code generate_job_code
\* returns is at least the floor, 1001.
C22_SuffixAtLeastFloor == CodeNumber(generate_job_code(vacs)) >= FirstJobNumber

\* The kinds of event that carry a message of a sender.
MessageKinds == {"text", "button_reply", "button", "list_reply", "nfm_reply", "document"}

SameOutcome(w1, w2, a) ==
    /\ w1.sent = w2.sent
    /\ w1.exc = w2.exc
    /\ w1.ran = w2.ran
    /\ w1.cand = w2.cand /\ w1.recr = w2.recr /\ w1.vacs = w2.vacs
    /\ w1.apps = w2.apps /\ w1.cbs = w2.cbs /\ w1.tasks = w2.tasks
    /\ StateTag(w1.conv[a]) = StateTag(w2.conv[a])
    /\ ContextOf(w1.conv[a]) = ContextOf(w2.conv[a])

\* The world of the event handled last, with the record of its sender absent
\* and with that record in state idle with an empty context.
WorldWithoutRecord == [World(last'.ev, 0) EXCEPT !.conv[last'.ev.from] = NoConv]

WorldWithIdleRecord ==
    [World(last'.ev, 0) EXCEPT !.conv[last'.ev.from] = NewConversationState]

\* C24: an absent ConversationState record is the same as one in state idle
\* with an empty context.  For every message event handled while its sender
\* has no record or an idle one with an empty context: the handlers it is
\* routed to, and the whole of dispatch, send the same replies, make the same
\* writes and leave the same state tag and context in both cases.
C24_AbsentRecordIsIdle ==
    [][/\ last'.ev.kind \in MessageKinds
       /\ StateTag(conv[last'.ev.from]) = "idle"
       /\ ContextOf(conv[last'.ev.from]) = EmptyCtx
       => /\ SameOutcome(route(WorldWithoutRecord), route(WorldWithIdleRecord),
                         last'.ev.from)
          /\ SameOutcome(dispatch(WorldWithoutRecord), dispatch(WorldWithIdleRecord),
                         last'.ev.from)
          /\ conv'[last'.ev.from] = Persisted(dispatch(WorldWithoutRecord).conv[last'.ev.from])
          /\ conv'[last'.ev.from] = Persisted(dispatch(WorldWithIdleRecord).conv[last'.ev.from])]_vars

\* A document was the first event of an address and was answered with the
\* notice that an idle address gets.
C24_Witness ==
    /\ Len(last.added) = 1
    /\ last.ev.kind = "document"
    /\ last.ev.from = "a1"
    /\ \E i \in 1..Len(last.sent) : last.sent[i].msg = "attach_via_apply_link"
    /\ StateTag(conv["a1"]) = "idle"

\* The moderation outcomes.
Decided == {"approved", "rejected"}

\* C25: a moderation outcome is terminal until resubmission.  In every turn,
\* a vacancy that is approved or rejected keeps its status, unless the turn
\* is an edit-and-resubmit, which makes it pending; and an approve or reject
\* callback for an id that no vacancy has changes nothing.
C25_OutcomeTerminalUntilResubmission ==
    [][/\ \A i \in 1..Len(vacs) :
              vacs[i].status \in Decided /\ vacs'[i].status # vacs[i].status
              => last'.ev.kind = "edit_vacancy" /\ vacs'[i].status = "pending"
       /\ last'.ev.kind \in {"approve", "reject"}
          /\ IntOf(last'.ev.suf) \notin 1..Len(vacs)
          => /\ UNCHANGED <<conv, cand, recr, vacs, apps, cbs, tasks>>
             /\ last'.sent = <<>>]_vars

\* The recruiter row of the address owns the vacancy with that id.
OwnsVacancy(a, vid) ==
    /\ vid \in 1..Len(vacs)
    /\ \E i \in 1..Len(recr) : recr[i].wa_number = a /\ vacs[vid].recruiter_id = i

\* C26: edit-and-resubmit applies only to a rejected vacancy owned by the
\* recruiter who asks.  A request that succeeds was made with a valid
\* session for a rejected vacancy of the caller, and leaves that vacancy
\* pending with no rejection reason and no approval time, and nothing else
\* changed; a request without a valid session, for a vacancy of another
\* owner or of no one, or for a vacancy that is pending or approved, is
\* refused; and a refused request changes nothing.
C26_EditOnlyRejectedAndOwned ==
    [][last'.ev.kind = "edit_vacancy"
       => LET a == last'.ev.from
              vid == IntOf(last'.ev.suf)
              eligible == /\ last'.ev.row = "session"
                          /\ OwnsVacancy(a, vid)
                          /\ vacs[vid].status = "rejected"
          IN  /\ UNCHANGED <<conv, cand, recr, apps, cbs, tasks>>
              /\ ~eligible => last'.exc # ""
              /\ last'.exc # "" => vacs' = vacs
              /\ last'.exc = ""
                 => /\ eligible
                    /\ vacs'[vid].status = "pending"
                    /\ vacs'[vid].rejection_reason = ""
                    /\ vacs'[vid].approved_at = NoTime
                    /\ vacs'[vid].job_code = vacs[vid].job_code
                    /\ vacs'[vid].recruiter_id = vacs[vid].recruiter_id
                    /\ Len(vacs') = Len(vacs)
                    /\ \A i \in 1..Len(vacs) : i # vid => vacs'[i] = vacs[i]]_vars

\* A vacancy that had been approved and then rejected was edited by its
\* owner and is pending again, without reason and approval time.
C26_Witness ==
    /\ last.ev.kind = "edit_vacancy"
    /\ last.exc = ""
    /\ Len(vacs) = 1
    /\ vacs[1].status = "pending"
    /\ vacs[1].is_edited
    /\ vacs[1].rejection_reason = ""
    /\ vacs[1].approved_at = NoTime
    /\ now > 0

\* The number of Recruiter records of the address in a table.
RecruiterRecords(rows, a) == Cardinality({i \in 1..Len(rows) : rows[i].wa_number = a})

\* The turn completes the recruiter-registration form of an address that has
\* a Recruiter record.
CompletesSecondRegistration(a) ==
    /\ last'.ev.from = a
    /\ last'.ev.kind = "nfm_reply"
    /\ last'.ran = <<"recruiter.handle_registration_flow_completion">>
    /\ IsRecruiter(a)

\* C27 as stated: a second completion of the recruiter-registration form for
\* an address that is registered leaves two Recruiter records of the address
\* and the state recruiter_idle.
C27_SecondRegistrationDuplicates ==
    [][\A a \in Addresses :
           CompletesSecondRegistration(a)
           => /\ RecruiterRecords(recr', a) = RecruiterRecords(recr, a) + 1
              /\ StateTag(conv'[a]) = "recruiter_idle"]_vars

\* C27: a second completion of the recruiter-registration form for an
\* address that is registered creates no Recruiter record: the insert is
\* refused (the address column is unique), the address keeps its one record,
\* nothing is sent, and the state tag and the context stay as they were.
C27_SecondRegistrationRefused ==
    [][\A a \in Addresses :
           CompletesSecondRegistration(a)
           => /\ recr' = recr
              /\ RecruiterRecords(recr', a) = 1
              /\ last'.exc = "IntegrityError"
              /\ last'.sent = <<>>
              /\ StateTag(conv'[a]) = StateTag(conv[a])
              /\ ContextOf(conv'[a]) = ContextOf(conv[a])
              /\ UNCHANGED <<cand, vacs, apps, cbs, tasks>>]_vars

\* A registered recruiter whose state had gone back to idle completed the
\* registration form again: the insert was refused and the state is idle.
C27_Witness ==
    /\ last.ev.kind = "nfm_reply"
    /\ last.ev.from = "a1"
    /\ last.ran = <<"recruiter.handle_registration_flow_completion">>
    /\ last.exc = "IntegrityError"
    /\ RecruiterRecords(recr, "a1") = 1
    /\ StateTag(conv["a1"]) = "idle"

\* The turn handles a document of the address.
UploadsDocument(a) == last'.ev.from = a /\ last'.ev.kind = "document"

\* C28: a document is taken as a CV only in state seeker_updating_cv.  There,
\* a document of an allowed type from an address with a Candidate record
\* sets the CV reference, adds exactly one to the count of CV updates, is
\* confirmed, and leaves the state seeker_updating_cv and the context as they
\* were.  In every other state the document is answered with the generic
\* notice alone, and the state tag, the context and the Candidate record stay
\* as they were.
C28_DocumentOnlyWhenUpdatingCv ==
    [][\A a \in Addresses :
           UploadsDocument(a)
           => /\ /\ StateTag(conv[a]) = "seeker_updating_cv"
                 /\ SavedCvPath(last'.ev.mime) # ""
                 /\ cand[a].exists
                 => /\ cand'[a] = [cand[a] EXCEPT
                                       !.cv_path = SavedCvPath(last'.ev.mime),
                                       !.cv_updates_used = cand[a].cv_updates_used + 1]
                    /\ SentTo(last', a, <<"cv_update_confirmation">>)
                    /\ StateTag(conv'[a]) = "seeker_updating_cv"
                    /\ ContextOf(conv'[a]) = ContextOf(conv[a])
              /\ StateTag(conv[a]) # "seeker_updating_cv"
                 => /\ Len(last'.sent) = 1
                    /\ last'.sent[1].to = a
                    /\ last'.sent[1].msg = "attach_via_apply_link"
                    /\ StateTag(conv'[a]) = StateTag(conv[a])
                    /\ ContextOf(conv'[a]) = ContextOf(conv[a])
                    /\ cand'[a] = cand[a]
              /\ UNCHANGED <<recr, vacs, apps, cbs, tasks>>]_vars

\* A PDF sent while updating the CV was stored as the candidate's CV, counted
\* once, and the state is still seeker_updating_cv.
C28_Witness ==
    /\ last.ev.kind = "document"
    /\ last.ev.from = "a1"
    /\ SentTo(last, "a1", <<"cv_update_confirmation">>)
    /\ cand["a1"].cv_updates_used = 1
    /\ cand["a1"].cv_path = ".pdf"
    /\ StateTag(conv["a1"]) = "seeker_updating_cv"

\* C29: every message event with a sender address leaves, whatever its
\* outcome, the time of the event as the last-activity timestamp of the
\* sender's stored ConversationState record, where a later request reads it.
C29_LastActivityPersisted ==
    [][last'.ev.kind \in MessageKinds
       => /\ conv'[last'.ev.from].exists
          /\ conv'[last'.ev.from].last_user_message_at = now]_vars

\* A job-code token starts at position i of the text: the two letters in
\* either case, the colon and a digit.
TokenAt(text, i) ==
    /\ i + 3 <= Len(text)
    /\ text[i] \in {"J", "j"}
    /\ text[i + 1] \in {"C", "c"}
    /\ text[i + 2] = ":"
    /\ IsDigit(text[i + 3])

\* The string is "JC:" followed by one digit or more.
IsCanonicalCode(code) ==
    /\ Len(code) > Len(JobCodePrefix)
    /\ SubSeq(code, 1, Len(JobCodePrefix)) = JobCodePrefix
    /\ AllDigits(SubSeq(code, Len(JobCodePrefix) + 1, Len(code)))

\* C30: parse_job_code finds a job code anywhere in a text, in either case:
\* it returns none exactly when the text holds no token; what it returns
\* otherwise is "JC:" and digits, the upper case of a part of the text that
\* starts at a token; and for the text "Apply " followed by a generated job
\* code it returns exactly that code.
C30_ParseJobCode ==
    [][last'.ev.kind = "text"
       => LET text == last'.ev.text
              code == parse_job_code(text)
          IN  /\ code = NoCode <=> ~\E i \in 1..Len(text) : TokenAt(text, i)
              /\ code # NoCode
                 => /\ IsCanonicalCode(code)
                    /\ \E i \in 1..Len(text) :
                           /\ TokenAt(text, i)
                           /\ i + Len(code) - 1 <= Len(text)
                           /\ Upper(SubSeq(text, i, i + Len(code) - 1)) = code
              /\ text = T_apply \o generate_job_code(vacs)
                 => code = generate_job_code(vacs)]_vars

\* A text with a token in mixed case after a blank was sent and was routed
\* to the seeker workflow.
C30_Witness ==
    /\ last.ev.kind = "text"
    /\ last.ev.text = <<" ", "j", "C", ":", "1">>
    /\ "seeker.start" \in Range(last.ran)

\* A request to verify code for address a is answered in this step.
VerifiesOtp(a, code) ==
    /\ last'.ev.kind = "otp_verify"
    /\ last'.ev.from = a
    /\ last'.ev.suf = code

\* Record i of the table is of address a, holds code, is unused and has not
\* expired at minute t.
UsableOtp(records, i, a, code, t) ==
    /\ records[i].wa_number = a
    /\ records[i].otp_code = code
    /\ ~records[i].used
    /\ records[i].expires_at > t

\* C31: a verification of a code for a number succeeds exactly when an unused,
\* unexpired record of that number holds the code; a success marks one such
\* record used and changes no other, after which no usable record of the
\* number holds the code (verifying it again fails); a failure changes
\* nothing; and no step makes a used record unused, so each record verifies
\* at most once.
C31_VerifyOtpSingleUse ==
    [][/\ \A i \in 1..Len(otp_records) :
              /\ Len(otp_records') >= Len(otp_records)
              /\ otp_records[i].used => otp_records'[i].used
              /\ otp_records'[i].wa_number = otp_records[i].wa_number
              /\ otp_records'[i].otp_code = otp_records[i].otp_code
              /\ otp_records'[i].expires_at = otp_records[i].expires_at
       /\ \A a \in Addresses, code \in OtpCodes :
              VerifiesOtp(a, code) =>
                  LET usable == {i \in 1..Len(otp_records) :
                                     UsableOtp(otp_records, i, a, code, otp_clock)}
                  IN  /\ (last'.resp = "session_token") <=> (usable # {})
                      /\ (last'.exc = "HTTP400") <=> (usable = {})
                      /\ Len(otp_records') = Len(otp_records)
                      /\ usable = {} => otp_records' = otp_records
                      /\ usable # {} =>
                             /\ \E i \in usable :
                                    /\ otp_records'[i].used
                                    /\ \A j \in 1..Len(otp_records) :
                                           j # i => otp_records'[j] = otp_records[j]
                             /\ \A i \in 1..Len(otp_records') :
                                    ~UsableOtp(otp_records', i, a, code, otp_clock)]_vars

\* A code was verified after an earlier code of the table had expired or been
\* replaced.
C31_Witness ==
    /\ last.ev.kind = "otp_verify"
    /\ last.resp = "session_token"
    /\ Len(otp_records) >= 2
    /\ \E i \in 1..Len(otp_records) :
           /\ otp_records[i].wa_number = last.ev.from
           /\ otp_records[i].otp_code = last.ev.suf
           /\ otp_records[i].used
           /\ otp_records[i].expires_at > otp_clock

\* A new code is issued for address a in this step.
CreatesOtp(a) ==
    /\ last'.ev.kind = "otp_send"
    /\ last'.ev.from = a

\* The unused records of address a.
UnusedOtps(records, a) ==
    {i \in 1..Len(records) : records[i].wa_number = a /\ ~records[i].used}

C33_StatusEventIgnored ==
    [][last'.ev.kind = "status"
       => /\ last'.ran = <<>>
          /\ last'.sent = <<>>
          /\ last'.added = <<>>
          /\ last'.exc = ""
          /\ last'.resp = "ok"
          /\ UNCHANGED <<conv, cand, recr, vacs, apps, cbs, tasks, otp_records,
                         inflight>>]_vars

\* A status event arrived while an address was in the middle of a flow and
\* the tables held records.
C33_Witness ==
    /\ last.ev.kind = "status"
    /\ last.resp = "ok"
    /\ \E a \in Addresses : conv[a].exists /\ conv[a].state \notin {"", "idle"}
    /\ Len(recr) > 0

\* C34: a completed vacancy form from an address with a recruiter row adds
\* exactly one vacancy: owned by that recruiter, pending, without rejection
\* reason or approval time, with a job code no earlier vacancy has; and the
\* sender's state becomes recruiter_idle with an empty context.  No step adds
\* a vacancy in another status than pending.
C34_VacancyFormCreatesPending ==
    [][/\ \A i \in (Len(vacs) + 1)..Len(vacs') : vacs'[i].status = "pending"
       /\ \A a \in Addresses :
              (SubmitsForm(a, {"title", "description"}) /\ IsRecruiter(a))
              => /\ Len(vacs') = Len(vacs) + 1
                 /\ \A i \in 1..Len(vacs) : vacs'[i] = vacs[i]
                 /\ LET v == vacs'[Len(vacs')]
                    IN  /\ v.status = "pending"
                        /\ v.rejection_reason = ""
                        /\ v.approved_at = NoTime
                        /\ v.recruiter_id \in 1..Len(recr)
                        /\ recr[v.recruiter_id].wa_number = a
                        /\ \A i \in 1..Len(vacs) : vacs[i].job_code # v.job_code
                 /\ StateTag(conv'[a]) = "recruiter_idle"
                 /\ ContextOf(conv'[a]) = EmptyCtx]_vars

\* C35: a plan row selected by an address with a candidate row, naming a plan
\* of the table and not the free trial after it was used, sets the
\* candidate's plan to that plan, plan_expiry to now plus the plan's
\* duration_days, applications_used to 0 and registration_complete to true,
\* sets free_trial_used when the plan is the free trial and leaves it as it
\* was otherwise, and changes no other candidate.  A plan row from an address
\* without a candidate row, or naming no plan of the table, changes no table,
\* sends nothing and leaves the sender's state tag and context as they were.
C35_PlanSelectionActivates ==
    [][\A a \in Addresses, row \in DOMAIN PlanRows :
           SelectsRow(a, row) =>
               LET plan == PlanRows[row]
               IN  /\ (cand[a].exists /\ plan \in PlanNames
                       /\ ~(plan = "free_trial" /\ cand[a].free_trial_used))
                      => /\ cand'[a] =
                               [cand[a] EXCEPT
                                    !.plan = plan,
                                    !.plan_expiry = now + duration_days(plan),
                                    !.applications_used = 0,
                                    !.registration_complete = TRUE,
                                    !.free_trial_used = (plan = "free_trial") \/ @]
                         /\ \A b \in Addresses \ {a} : cand'[b] = cand[b]
                   /\ (~cand[a].exists \/ plan \notin PlanNames)
                      => /\ UNCHANGED <<cand, recr, vacs, apps, cbs, tasks>>
                         /\ last'.sent = <<>>
                         /\ StateTag(conv'[a]) = StateTag(conv[a])
                         /\ ContextOf(conv'[a]) = ContextOf(conv[a])]_vars

\* A candidate who had applied on the free trial selected another plan after
\* the clock had moved: the count is 0 again, the trial stays used.
C35_Witness ==
    \E a \in Addresses :
        /\ last.ev.from = a /\ last.ev.kind = "list_reply"
        /\ last.ev.row = "plan_advanced"
        /\ cand[a].plan = "advanced"
        /\ cand[a].free_trial_used
        /\ cand[a].registration_complete
        /\ cand[a].applications_used = 0
        /\ now > 0
        /\ cand[a].plan_expiry = now + AdvancedDays
        /\ \E i \in 1..Len(apps) : apps[i].candidate = a

\* The step handles an upload of address a: a completed form that carries
\* media and goes to the seeker registration or to the CV update, or a
\* document sent while a is in seeker_updating_cv.
UploadsMedia(a) ==
    /\ last'.ev.from = a
    /\ \/ /\ last'.ev.kind = "nfm_reply"
          /\ "media_id" \in last'.ev.keys /\ last'.ev.media_id # ""
          /\ ~({"title", "description"} \subseteq last'.ev.keys)
       \/ /\ last'.ev.kind = "document"
          /\ StateTag(conv[a]) = "seeker_updating_cv"

\* C36: an upload in a format that is not allowed is answered with the
\* invalid-format notice to the sender, and the candidate's CV reference and
\* count of CV updates stay as they were.
C36_DisallowedMediaSurfaced ==
    [][\A a \in Addresses :
           (UploadsMedia(a) /\ MimeToExt(last'.ev.mime) \notin ALLOWED_EXTENSIONS)
           => /\ \E i \in 1..Len(last'.sent) :
                     /\ last'.sent[i].to = a
                     /\ last'.sent[i].msg = "invalid_file_format"
              /\ cand'[a].cv_path = cand[a].cv_path
              /\ cand'[a].cv_updates_used = cand[a].cv_updates_used]_vars

ConversationTags ==
    {"idle", "recruiter_registering", "recruiter_idle", "recruiter_posting_vacancy",
     "seeker_pre_register", "seeker_registering", "seeker_selecting_plan",
     "seeker_viewing_job", "seeker_updating_cv"}

\* C37: every conversation row holds one of the nine state tags and a context
\* that fits it: seeker_pre_register and seeker_registering hold
\* pending_job_code, seeker_viewing_job holds the vacancy_id and job_code of
\* one vacancy of the table, seeker_updating_cv holds vacancy_id, idle and the
\* three recruiter states hold an empty context.
C37_StateAndContextAgree ==
    \A a \in Addresses :
        conv[a].exists =>
            LET tag == conv[a].state
                ctx == conv[a].context
            IN  /\ tag \in ConversationTags
                /\ tag \in {"seeker_pre_register", "seeker_registering"}
                   => "pending_job_code" \in ctx.keys
                /\ tag = "seeker_viewing_job"
                   => /\ {"vacancy_id", "job_code"} \subseteq ctx.keys
                      /\ ctx.vacancy_id \in 1..Len(vacs)
                      /\ vacs[ctx.vacancy_id].job_code = ctx.job_code
                /\ tag = "seeker_updating_cv" => "vacancy_id" \in ctx.keys
                /\ tag \in {"idle", "recruiter_registering", "recruiter_idle",
                            "recruiter_posting_vacancy"}
                   => ctx = EmptyCtx

\* An address that posted a vacancy is looking at it as a seeker.
C37_Witness ==
    \E a \in Addresses :
        /\ conv[a].exists /\ conv[a].state = "seeker_viewing_job"
        /\ conv[a].context.vacancy_id \in 1..Len(vacs)
        /\ conv[a].context.job_code = vacs[conv[a].context.vacancy_id].job_code
        /\ last.ev.from = a

\* C38: with subscription enforcement on, a candidate whose plan has a finite
\* max_applications has used at most that many applications.
C38_UsedWithinCap ==
    subscription_enabled =>
        \A a \in Addresses :
            (/\ cand[a].exists
             /\ cand[a].plan # NoPlan
             /\ max_applications(cand[a].plan) # Unlimited)
            => cand[a].applications_used <= max_applications(cand[a].plan)

\* A candidate on the free trial had used all its applications, tapped
\* Apply-Now again and was sent the renewal notice.
C38_Witness ==
    \E a \in Addresses :
        /\ subscription_enabled
        /\ cand[a].plan = "free_trial"
        /\ cand[a].plan_expiry >= now
        /\ cand[a].applications_used = FreeTrialMaxApplications
        /\ Len(apps) = FreeTrialMaxApplications
        /\ last.ev.from = a /\ last.ev.pre = "btn_apply_now_"
        /\ SentTo(last, a, <<"plan_renewal">>)

\* C39: every application row a step adds names a vacancy whose status is
\* approved when the step commits and a candidate whose registration is
\* complete.
C39_ApplicationsOnlyForApproved ==
    [][\A i \in (Len(apps) + 1)..Len(apps') :
           /\ apps'[i].vacancy_id \in 1..Len(vacs')
           /\ vacs'[apps'[i].vacancy_id].status = "approved"
           /\ cand'[apps'[i].candidate].exists
           /\ cand'[apps'[i].candidate].registration_complete]_vars

\* C40: the fields of every vacancy agree with its status: pending has no
\* rejection reason and no approval time, approved has an approval time and
\* no rejection reason, rejected has a rejection reason and no approval time.
C40_FieldsAgreeWithStatus ==
    \A i \in 1..Len(vacs) :
        LET v == vacs[i]
        IN  /\ v.status \in {"pending", "approved", "rejected"}
            /\ v.status = "pending"
               => v.rejection_reason = "" /\ v.approved_at = NoTime
            /\ v.status = "approved"
               => v.rejection_reason = "" /\ v.approved_at # NoTime
            /\ v.status = "rejected"
               => v.rejection_reason # "" /\ v.approved_at = NoTime

====
